---- MODULE Spec2Model ----
\* A model of the chrono package (Date, Time and DateTime wrappers around
\* time.Time).  An instant of the standard library is the record
\*   [day, sod, ns, loc]
\* day: days since 0001-01-01 in UTC (the zero time.Time is day 0),
\* sod: second of that UTC day, ns: nanosecond of that second,
\* loc: the location the instant is presented in, [name, off] with off the
\* zone's offset east of UTC in seconds.  Numbers that do not fit 32 bits
\* (seconds since year 1, Unix milli/microseconds, uint32 words) are kept in
\* mixed-radix form.  Text is a sequence of one-character strings.
EXTENDS Integers, Sequences, FiniteSets, TLC

VARIABLES recv, call, wire, depth

vars == <<recv, call, wire, depth>>

\* ------------------------------------------------------------------------
\* Bounds of the model
\* ------------------------------------------------------------------------

\* how many calls that change the value (AddDate, Add, In, ..., the decode
\* entry points) are chained on one variable after its construction
MaxDepth == 1

\* AddMonthsNoOverflow is tried with every n in -MaxMonths..MaxMonths
MaxMonths == 3

\* ------------------------------------------------------------------------
\* The calendar of package time (proleptic Gregorian)
\* ------------------------------------------------------------------------

SecondsPerDay == 24 * 3600

IsLeap(y) == (y % 4 = 0) /\ ((y % 100 # 0) \/ (y % 400 = 0))

DaysIn(m, y) ==
  IF m = 2 THEN (IF IsLeap(y) THEN 29 ELSE 28)
  ELSE IF m \in {4, 6, 9, 11} THEN 30 ELSE 31

\* days from 0001-01-01 to the first of month m (1..12) of year y, plus d - 1
DaysFromCivil(y, m, d) ==
  LET yy  == IF m <= 2 THEN y - 1 ELSE y
      era == yy \div 400
      yoe == yy - era * 400
      mp  == IF m > 2 THEN m - 3 ELSE m + 9
      doy == (153 * mp + 2) \div 5 + d - 1
      doe == yoe * 365 + yoe \div 4 - yoe \div 100 + doy
  IN  era * 146097 + doe - 306

\* <<year, month, day>> of a day number
CivilFromDays(z) ==
  LET zz  == z + 306
      era == zz \div 146097
      doe == zz - era * 146097
      yoe == (doe - doe \div 1460 + doe \div 36524 - doe \div 146096) \div 365
      doy == doe - (365 * yoe + yoe \div 4 - yoe \div 100)
      mp  == (5 * doy + 2) \div 153
      d   == doy - (153 * mp + 2) \div 5 + 1
      m   == IF mp < 10 THEN mp + 3 ELSE mp - 9
      y   == yoe + era * 400 + (IF m <= 2 THEN 1 ELSE 0)
  IN  <<y, m, d>>

\* ------------------------------------------------------------------------
\* Locations
\* ------------------------------------------------------------------------

UTC == [name |-> "UTC", off |-> 0]

\* the zone of the machine the program runs on: here five hours west
Local == [name |-> "Local", off |-> -(5 * 3600)]

FixedZone(name, off) == [name |-> name, off |-> off]

\* ------------------------------------------------------------------------
\* time.Time
\* ------------------------------------------------------------------------

\* the zero time.Time: January 1, year 1, 00:00:00 UTC
ZeroTime == [day |-> 0, sod |-> 0, ns |-> 0, loc |-> UTC]

\* the day number and the second of the day the instant shows in its location
WallDay(t) == t.day + (t.sod + t.loc.off) \div SecondsPerDay
WallSod(t) == (t.sod + t.loc.off) % SecondsPerDay

Year(t)       == CivilFromDays(WallDay(t))[1]
Month(t)      == CivilFromDays(WallDay(t))[2]
Day(t)        == CivilFromDays(WallDay(t))[3]
Hour(t)       == WallSod(t) \div 3600
Minute(t)     == (WallSod(t) % 3600) \div 60
Second(t)     == WallSod(t) % 60
Nanosecond(t) == t.ns
Location(t)   == t.loc

\* time.Date: every field is normalised, overflowing into the next larger one
stdDate(year, month, day, hour, min, sec, nsec, loc) ==
  LET m0  == month - 1
      y1  == year + m0 \div 12
      m1  == (m0 % 12) + 1
      s1  == sec + nsec \div 1000000000
      ns1 == nsec % 1000000000
      mi1 == min + s1 \div 60
      s2  == s1 % 60
      h1  == hour + mi1 \div 60
      mi2 == mi1 % 60
      d1  == day + h1 \div 24
      h2  == h1 % 24
      wallDay == DaysFromCivil(y1, m1, 1) + d1 - 1
      wallSod == h2 * 3600 + mi2 * 60 + s2
  IN  [day |-> wallDay + (wallSod - loc.off) \div SecondsPerDay,
       sod |-> (wallSod - loc.off) % SecondsPerDay,
       ns  |-> ns1,
       loc |-> loc]

\* t.After(u), t.Before(u), t.Equal(u): the instants are compared, never the
\* locations
stdAfter(t, u) ==
  \/ t.day > u.day
  \/ t.day = u.day /\ t.sod > u.sod
  \/ t.day = u.day /\ t.sod = u.sod /\ t.ns > u.ns

stdBefore(t, u) ==
  \/ t.day < u.day
  \/ t.day = u.day /\ t.sod < u.sod
  \/ t.day = u.day /\ t.sod = u.sod /\ t.ns < u.ns

stdEqual(t, u) == t.day = u.day /\ t.sod = u.sod /\ t.ns = u.ns

stdIsZero(t) == t.day = 0 /\ t.sod = 0 /\ t.ns = 0

\* t.In(loc), t.UTC(), t.Local(): the same instant shown in another location
stdIn(t, loc) == [t EXCEPT !.loc = loc]

\* t.AddDate(years, months, days)
stdAddDate(t, years, months, days) ==
  stdDate(Year(t) + years, Month(t) + months, Day(t) + days,
          Hour(t), Minute(t), Second(t), Nanosecond(t), Location(t))

\* An int64 count of seconds, milliseconds or microseconds is kept as
\* [d, s, r]: d whole days, s the seconds of the day (0 <= s < 86400) and r the
\* units below the second (none for a count of seconds).
Seconds(n) == [d |-> n \div SecondsPerDay, s |-> n % SecondsPerDay, r |-> 0]

Fraction(n, r) == [d |-> n \div SecondsPerDay, s |-> n % SecondsPerDay, r |-> r]

CountLess(a, b) ==
  \/ a.d < b.d
  \/ a.d = b.d /\ a.s < b.s
  \/ a.d = b.d /\ a.s = b.s /\ a.r < b.r

\* the count d days, s seconds and r units, with units to the second
CountOf(d, s, r, units) ==
  LET sec == s + r \div units
  IN  [d |-> d + sec \div SecondsPerDay, s |-> sec % SecondsPerDay, r |-> r % units]

\* the int64 range in microseconds: -2^63 .. 2^63 - 1, and 2^64
MinInt64Micro == [d |-> -106751992, s |-> 71945, r |-> 224192]

MaxInt64Micro == [d |-> 106751991, s |-> 14454, r |-> 775807]

Two64Micro == [d |-> 213503982, s |-> 28909, r |-> 551616]

\* int64 arithmetic wraps around: the count of microseconds modulo 2^64
RECURSIVE WrapMicro(_)
WrapMicro(u) ==
  IF CountLess(MaxInt64Micro, u)
    THEN WrapMicro(CountOf(u.d - Two64Micro.d, u.s - Two64Micro.s,
                           u.r - Two64Micro.r, 1000000))
  ELSE IF CountLess(u, MinInt64Micro)
    THEN WrapMicro(CountOf(u.d + Two64Micro.d, u.s + Two64Micro.s,
                           u.r + Two64Micro.r, 1000000))
  ELSE u

\* time.Unix(sec, nsec) for 0 <= nsec < 1e9: the local time of that instant
stdUnix(sec, nsec) ==
  [day |-> 719162 + sec.d,
   sod |-> sec.s,
   ns  |-> nsec,
   loc |-> Local]

\* time.UnixMicro(usec) and time.UnixMilli(msec)
stdUnixMicro(usec) == stdUnix(usec, usec.r * 1000)

stdUnixMilli(msec) == stdUnix(msec, msec.r * 1000000)

\* t.Unix(), t.UnixMilli() and t.UnixMicro(): the count since 1970-01-01 UTC.
\* Milliseconds stay inside int64 for every day count of this model;
\* microseconds leave it beyond the years -290307 and 294246.
stdTimeUnix(t) == [d |-> t.day - 719162, s |-> t.sod, r |-> 0]

stdTimeUnixMilli(t) == [d |-> t.day - 719162, s |-> t.sod, r |-> t.ns \div 1000000]

stdTimeUnixMicro(t) == WrapMicro([d |-> t.day - 719162, s |-> t.sod, r |-> t.ns \div 1000])

\* ------------------------------------------------------------------------
\* Text: Time.Format and time.Parse
\* A layout is the sequence of the chunks the library cuts it into: the
\* reference-time elements below and single literal characters.
\* ------------------------------------------------------------------------

DigitChars == <<"0", "1", "2", "3", "4", "5", "6", "7", "8", "9">>

IsDigit(c) == \E i \in 1..10 : DigitChars[i] = c

DigitVal(c) == (CHOOSE i \in 1..10 : DigitChars[i] = c) - 1

RECURSIVE Digits(_)
Digits(n) == IF n < 10 THEN <<DigitChars[n + 1]>>
             ELSE Digits(n \div 10) \o <<DigitChars[(n % 10) + 1]>>

RECURSIVE Zeros(_)
Zeros(k) == IF k <= 0 THEN <<>> ELSE <<"0">> \o Zeros(k - 1)

\* appendInt: at least width digits, a minus sign in front of a negative number
AppendInt(x, width) ==
  LET u == IF x < 0 THEN -x ELSE x
      d == Digits(u)
  IN  (IF x < 0 THEN <<"-">> ELSE <<>>) \o Zeros(width - Len(d)) \o d

RECURSIVE TrimZeros(_)
TrimZeros(s) == IF Len(s) > 0 /\ s[Len(s)] = "0"
                THEN TrimZeros(SubSeq(s, 1, Len(s) - 1)) ELSE s

\* appendNano for the element .999999: six digits, trailing zeros and then a
\* bare point removed
AppendNano6(nanosec) ==
  IF nanosec = 0 THEN <<>>
  ELSE LET six == TrimZeros(SubSeq(AppendInt(nanosec, 9), 1, 6))
       IN  IF six = <<>> THEN <<>> ELSE <<".">> \o six

\* appendNano for the element .999999999: nine digits, trailing zeros removed
AppendNano9(nanosec) ==
  IF nanosec = 0 THEN <<>> ELSE <<".">> \o TrimZeros(AppendInt(nanosec, 9))

\* the zone elements: the offset is cut to whole minutes towards zero
ZoneChunk(off, chunk) ==
  IF off = 0 /\ chunk = "Z07:00" THEN <<"Z">>
  ELSE LET a    == IF off < 0 THEN -off ELSE off
           zone == a \div 60
           sign == IF (off < 0) /\ (zone > 0) THEN <<"-">> ELSE <<"+">>
       IN  sign \o AppendInt(zone \div 60, 2) \o
           (IF chunk = "Z07:00" THEN <<":">> \o AppendInt(zone % 60, 2) ELSE <<>>)

StdChunks == {"2006", "01", "02", "15", "04", "05", ".999999", ".999999999", "Z07:00",
              "-07"}

FormatChunk(t, chunk) ==
  CASE chunk = "2006"    -> AppendInt(Year(t), 4)
    [] chunk = "01"      -> AppendInt(Month(t), 2)
    [] chunk = "02"      -> AppendInt(Day(t), 2)
    [] chunk = "15"      -> AppendInt(Hour(t), 2)
    [] chunk = "04"      -> AppendInt(Minute(t), 2)
    [] chunk = "05"      -> AppendInt(Second(t), 2)
    [] chunk = ".999999" -> AppendNano6(Nanosecond(t))
    [] chunk = ".999999999" -> AppendNano9(Nanosecond(t))
    [] chunk \in {"Z07:00", "-07"} -> ZoneChunk(t.loc.off, chunk)
    [] OTHER             -> <<chunk>>

\* t.Format(layout)
RECURSIVE stdFormat(_, _)
stdFormat(t, layout) ==
  IF layout = <<>> THEN <<>>
  ELSE FormatChunk(t, Head(layout)) \o stdFormat(t, Tail(layout))

Take(s, n) == SubSeq(s, 1, n)
Drop(s, n) == SubSeq(s, n + 1, Len(s))

AllDigits(s) == \A i \in 1..Len(s) : IsDigit(s[i])

RECURSIVE DigitsVal(_)
DigitsVal(s) == IF s = <<>> THEN 0
                ELSE DigitsVal(Take(s, Len(s) - 1)) * 10 + DigitVal(s[Len(s)])

\* atoi: an optional sign, then digits only; [ok, val]
Atoi(s) ==
  LET signed == Len(s) > 0 /\ s[1] \in {"-", "+"}
      body   == IF signed THEN Tail(s) ELSE s
  IN  IF AllDigits(body)
      THEN [ok |-> TRUE,
            val |-> IF signed /\ s[1] = "-" THEN -DigitsVal(body) ELSE DigitsVal(body)]
      ELSE [ok |-> FALSE, val |-> 0]

\* getnum: a one- or two-digit number, two digits required when fixed
GetNum(s, fixed) ==
  IF Len(s) < 1 \/ ~IsDigit(s[1]) THEN [ok |-> FALSE, val |-> 0, rest |-> s]
  ELSE IF Len(s) < 2 \/ ~IsDigit(s[2])
       THEN (IF fixed THEN [ok |-> FALSE, val |-> 0, rest |-> s]
             ELSE [ok |-> TRUE, val |-> DigitVal(s[1]), rest |-> Tail(s)])
       ELSE [ok |-> TRUE, val |-> DigitVal(s[1]) * 10 + DigitVal(s[2]),
             rest |-> Drop(s, 2)]

RECURSIVE Pow10(_)
Pow10(k) == IF k <= 0 THEN 1 ELSE 10 * Pow10(k - 1)

\* the number of digits that follow the first character of s
RECURSIVE DigitRun(_, _)
DigitRun(s, i) == IF i <= Len(s) /\ IsDigit(s[i]) THEN 1 + DigitRun(s, i + 1) ELSE 0

\* parseNanoseconds(value, nbytes): value[1] is the point
ParseNanoseconds(value, nbytes) ==
  IF nbytes > 10 THEN [ok |-> FALSE, val |-> 0]
  ELSE [ok |-> TRUE, val |-> DigitsVal(SubSeq(value, 2, nbytes)) * Pow10(10 - nbytes)]

HasFraction(value) ==
  Len(value) >= 2 /\ value[1] \in {".", ","} /\ IsDigit(value[2])

\* the next reference-time element of the rest of a layout, "" when none
RECURSIVE NextStd(_)
NextStd(layout) ==
  IF layout = <<>> THEN ""
  ELSE IF Head(layout) \in StdChunks THEN Head(layout) ELSE NextStd(Tail(layout))

ParseInit(value) ==
  [ok |-> TRUE, rest |-> value, year |-> 0, month |-> -1, day |-> -1,
   hour |-> 0, min |-> 0, sec |-> 0, ns |-> 0, zone |-> "none", zoff |-> 0]

Bad(st) == [st EXCEPT !.ok = FALSE]

\* the fraction after the seconds, taken even when the layout has none
ParseSecondFraction(st, layoutRest) ==
  IF HasFraction(st.rest) /\ NextStd(layoutRest) \notin {".999999", ".999999999"}
  THEN LET n == 1 + DigitRun(st.rest, 2)
           r == ParseNanoseconds(st.rest, n)
       IN  IF r.ok THEN [st EXCEPT !.ns = r.val, !.rest = Drop(st.rest, n)]
           ELSE Bad(st)
  ELSE st

ParseZone(st, chunk) ==
  LET v == st.rest
      n == IF chunk = "Z07:00" THEN 6 ELSE 3
  IN  IF chunk = "Z07:00" /\ Len(v) >= 1 /\ v[1] = "Z"
      THEN [st EXCEPT !.zone = "utc", !.rest = Tail(v)]
      ELSE IF Len(v) < n THEN Bad(st)
      ELSE IF chunk = "Z07:00" /\ v[4] # ":" THEN Bad(st)
      ELSE LET hr == Atoi(SubSeq(v, 2, 3))
               mm == IF chunk = "Z07:00" THEN Atoi(SubSeq(v, 5, 6))
                     ELSE [ok |-> TRUE, val |-> 0]
               off == (hr.val * 60 + mm.val) * 60
           IN  IF ~hr.ok \/ ~mm.ok \/ hr.val > 24 \/ mm.val > 60 THEN Bad(st)
               ELSE IF v[1] = "+"
                    THEN [st EXCEPT !.zone = "offset", !.zoff = off, !.rest = Drop(v, n)]
               ELSE IF v[1] = "-"
                    THEN [st EXCEPT !.zone = "offset", !.zoff = -off, !.rest = Drop(v, n)]
               ELSE Bad(st)

ParseChunk(st, chunk, layoutRest) ==
  LET v == st.rest
  IN  CASE chunk = "2006" ->
             IF Len(v) < 4 \/ ~IsDigit(v[1]) \/ ~Atoi(Take(v, 4)).ok THEN Bad(st)
             ELSE [st EXCEPT !.year = Atoi(Take(v, 4)).val, !.rest = Drop(v, 4)]
        [] chunk = "01" ->
             LET g == GetNum(v, TRUE)
             IN  IF ~g.ok \/ g.val <= 0 \/ 12 < g.val THEN Bad(st)
                 ELSE [st EXCEPT !.month = g.val, !.rest = g.rest]
        [] chunk = "02" ->
             LET g == GetNum(v, TRUE)
             IN  IF ~g.ok THEN Bad(st)
                 ELSE [st EXCEPT !.day = g.val, !.rest = g.rest]
        [] chunk = "15" ->
             LET g == GetNum(v, FALSE)
             IN  IF ~g.ok \/ 24 <= g.val THEN Bad(st)
                 ELSE [st EXCEPT !.hour = g.val, !.rest = g.rest]
        [] chunk = "04" ->
             LET g == GetNum(v, TRUE)
             IN  IF ~g.ok \/ 60 <= g.val THEN Bad(st)
                 ELSE [st EXCEPT !.min = g.val, !.rest = g.rest]
        [] chunk = "05" ->
             LET g == GetNum(v, TRUE)
             IN  IF ~g.ok \/ 60 <= g.val THEN Bad(st)
                 ELSE ParseSecondFraction([st EXCEPT !.sec = g.val, !.rest = g.rest],
                                          layoutRest)
        [] chunk \in {".999999", ".999999999"} ->
             IF ~HasFraction(v) THEN st
             ELSE LET n == 1 + DigitRun(v, 2)
                      r == ParseNanoseconds(v, n)
                  IN  IF r.ok THEN [st EXCEPT !.ns = r.val, !.rest = Drop(v, n)]
                      ELSE Bad(st)
        [] chunk \in {"Z07:00", "-07"} -> ParseZone(st, chunk)
        [] OTHER ->
             IF Len(v) >= 1 /\ v[1] = chunk THEN [st EXCEPT !.rest = Tail(v)]
             ELSE Bad(st)

RECURSIVE ParseChunks(_, _)
ParseChunks(st, layout) ==
  IF ~st.ok \/ layout = <<>> THEN st
  ELSE ParseChunks(ParseChunk(st, Head(layout), Tail(layout)), Tail(layout))

\* the end of parse: the text is used up, the day exists in its month, and
\* the location comes from the zone that was read
ParseResult(st, defaultLocation, local) ==
  LET month == IF st.month < 0 THEN 1 ELSE st.month
      day   == IF st.day < 0 THEN 1 ELSE st.day
  IN  IF ~st.ok \/ st.rest # <<>> \/ day < 1 \/ day > DaysIn(month, st.year)
      THEN [err |-> TRUE, t |-> ZeroTime]
      ELSE LET loc == CASE st.zone = "utc"  -> UTC
                        [] st.zone = "none" -> defaultLocation
                        [] OTHER -> IF local.off = st.zoff THEN local
                                    ELSE FixedZone("", st.zoff)
           IN  [err |-> FALSE,
                t   |-> stdDate(st.year, month, day, st.hour, st.min, st.sec, st.ns, loc)]

\* parse(layout, value, defaultLocation, local): [err, t]
ParseWith(layout, value, defaultLocation, local) ==
  ParseResult(ParseChunks(ParseInit(value), layout), defaultLocation, local)

\* time.Parse(layout, value)
stdParse(layout, value) == ParseWith(layout, value, UTC, Local)

\* time.ParseInLocation(layout, value, loc)
stdParseInLocation(layout, value, loc) == ParseWith(layout, value, loc, loc)

\* ------------------------------------------------------------------------
\* 32-bit words, kept as two 16-bit halves [lo, hi]
\* ------------------------------------------------------------------------

\* uint32(x) for an int x
Uint32(x) == [lo |-> x % 65536, hi |-> (x \div 65536) % 65536]

\* bitwise or of two naturals
RECURSIVE BitOr(_, _)
BitOr(a, b) ==
  IF a = 0 THEN b
  ELSE IF b = 0 THEN a
  ELSE 2 * BitOr(a \div 2, b \div 2) + (IF (a % 2 = 1) \/ (b % 2 = 1) THEN 1 ELSE 0)

Or32(v, w) == [lo |-> BitOr(v.lo, w.lo), hi |-> BitOr(v.hi, w.hi)]

\* binary.LittleEndian.PutUint32 and Uint32
PutUint32(w) == <<w.lo % 256, w.lo \div 256, w.hi % 256, w.hi \div 256>>
GetUint32(b) == [lo |-> b[1] + 256 * b[2], hi |-> b[3] + 256 * b[4]]

\* ------------------------------------------------------------------------
\* Date (src/date.go).  A Date is its wrapped time.Time.
\* ------------------------------------------------------------------------

dateLayout == <<"2006", "-", "01", "-", "02">>

quotedDateLayout == <<"\"">> \o dateLayout \o <<"\"">>

NewDate(year, month, day) == stdDate(year, month, day, 0, 0, 0, 0, UTC)

\* the wrapping without the pinning: Date{t: t}
DateOfStdTimeAsIs(t) == t

DateFromStdTime(t) == stdDate(Year(t), Month(t), Day(t), 0, 0, 0, 0, UTC)

\* [err, v]: v is Date{} when the parse fails
DateFromLayout(layout, str) ==
  LET r == stdParseInLocation(layout, str, UTC)
  IN  IF r.err THEN [err |-> TRUE, v |-> ZeroTime]
      ELSE [err |-> FALSE, v |-> DateFromStdTime(r.t)]

DateFromString(str) ==
  LET r == stdParseInLocation(dateLayout, str, UTC)
  IN  IF r.err THEN [err |-> TRUE, v |-> ZeroTime]
      ELSE [err |-> FALSE, v |-> DateFromStdTime(r.t)]

DateFromUnix(sec, nsec) == DateFromStdTime(stdIn(stdUnix(sec, nsec), UTC))

DateFromUnixMicro(usec) == DateFromStdTime(stdIn(stdUnixMicro(usec), UTC))

DateFromUnixMilli(msec) == DateFromStdTime(stdIn(stdUnixMilli(msec), UTC))

AddDate(d, years, months, days) == DateFromStdTime(stdAddDate(d, years, months, days))

\* the step back of one month that keeps the day: NewDate(year, month-1, day)
PreviousMonthSameDay(d) == NewDate(Year(d), Month(d) - 1, Day(d))

PreviousMonthLastDay(d) == NewDate(Year(d), Month(d), 0)

\* the month arithmetic without the clamp: d.AddDate(0, m, 0)
AddMonthsOverflowing(d, m) == AddDate(d, 0, m, 0)

AddMonthsNoOverflow(d, m) ==
  LET addedDate == AddDate(d, 0, m, 0)
  IN  IF Day(d) # Day(addedDate) THEN PreviousMonthLastDay(addedDate)
      ELSE addedDate

DateAfter(d, rhs)         == stdAfter(d, rhs)
DateAfterOrEqual(d, rhs)  == stdAfter(d, rhs) \/ stdEqual(d, rhs)
DateBefore(d, rhs)        == stdBefore(d, rhs)
DateBeforeOrEqual(d, rhs) == stdBefore(d, rhs) \/ stdEqual(d, rhs)
DateEqual(d, rhs)         == stdEqual(d, rhs)

DateUnix(d) == stdTimeUnix(d)

DateUnixMicro(d) == stdTimeUnixMicro(d)

DateUnixMilli(d) == stdTimeUnixMilli(d)

DateBetween(d, start, end) == stdAfter(d, start) /\ stdBefore(d, end)

DateBetweenOrEqual(d, start, end) ==
  DateAfterOrEqual(d, start) /\ DateBeforeOrEqual(d, end)

DateString(d) == stdFormat(d, dateLayout)

\* the packing with the month one nibble lower: uint32(m) << 10
DateMarshalBinaryNarrowYear(d) ==
  LET out == Or32(Or32(Uint32(Year(d)), Uint32(Month(d) * 1024)),
                  Uint32(Day(d) * 262144))
  IN  PutUint32(out)

\* the packing written with the high byte first: binary.BigEndian
DateMarshalBinaryBigEndian(d) ==
  LET out == Or32(Or32(Uint32(Year(d)), Uint32(Month(d) * 16384)),
                  Uint32(Day(d) * 262144))
  IN  <<out.hi \div 256, out.hi % 256, out.lo \div 256, out.lo % 256>>

DateMarshalBinary(d) ==
  LET out == Or32(Or32(Uint32(Year(d)), Uint32(Month(d) * 16384)),
                  Uint32(Day(d) * 262144))
  IN  PutUint32(out)

DateMarshalJSON(d) == <<"\"">> \o DateString(d) \o <<"\"">>

DateMarshalText(d) == DateString(d)

\* the decoding that asks for four bytes or more: len(data) < 4
DateUnmarshalBinaryOfPrefix(d, data) ==
  IF Len(data) < 4 THEN [err |-> TRUE, v |-> d]
  ELSE LET in  == GetUint32(data)
           y   == in.lo % 16384
           m   == ((in.lo \div 16384) + 4 * in.hi) % 16
           day == (in.hi \div 4) % 32
       IN  [err |-> FALSE, v |-> NewDate(y, m, day)]

\* the decoding that refuses a month outside 1..12 and a day outside 1..31
DateUnmarshalBinaryValidating(d, data) ==
  IF Len(data) # 4 THEN [err |-> TRUE, v |-> d]
  ELSE LET in  == GetUint32(data)
           y   == in.lo % 16384
           m   == ((in.lo \div 16384) + 4 * in.hi) % 16
           day == (in.hi \div 4) % 32
       IN  IF m \notin 1..12 \/ day \notin 1..31 THEN [err |-> TRUE, v |-> d]
           ELSE [err |-> FALSE, v |-> NewDate(y, m, day)]

\* the decoders return [err, v]: v is the receiver after the call, given the
\* receiver d before it
DateUnmarshalBinary(d, data) ==
  IF Len(data) # 4 THEN [err |-> TRUE, v |-> d]
  ELSE LET in  == GetUint32(data)
           y   == in.lo % 16384
           m   == ((in.lo \div 16384) + 4 * in.hi) % 16
           day == (in.hi \div 4) % 32
       IN  [err |-> FALSE, v |-> NewDate(y, m, day)]

DateUnmarshalJSON(d, data) ==
  LET r == stdParse(quotedDateLayout, data)
  IN  IF r.err THEN [err |-> TRUE, v |-> d]
      ELSE [err |-> FALSE, v |-> DateFromStdTime(r.t)]

\* the decoding that clears the receiver before it parses
DateUnmarshalTextClearing(d, data) ==
  LET r == stdParse(dateLayout, data)
  IN  IF r.err THEN [err |-> TRUE, v |-> ZeroTime]
      ELSE [err |-> FALSE, v |-> DateFromStdTime(r.t)]

DateUnmarshalText(d, data) ==
  LET r == stdParse(dateLayout, data)
  IN  IF r.err THEN [err |-> TRUE, v |-> d]
      ELSE [err |-> FALSE, v |-> DateFromStdTime(r.t)]

DateValue(d) == stdFormat(d, dateLayout)

\* int64(v) for a float64 v, given in halves: v = h / 2
Int64OfFloat(h) == IF h >= 0 THEN h \div 2 ELSE -((-h) \div 2)

\* a value handed to Scan is [type, v]
\* the verb %T of fmt: the name of the value's type, <nil> for a nil interface
TypeName(value) == IF value.type = "nil" THEN "<nil>" ELSE value.type

\* the error after the type switch of a Scan; the receiver d is left alone
ScanTypeError(d, value, into) ==
  [err |-> TRUE, v |-> d,
   msg |-> "failed to scan type '" \o TypeName(value) \o "' into " \o into]

DateScan(d, value) ==
  CASE value.type = "nil"     -> [err |-> FALSE, v |-> ZeroTime]
    [] value.type = "int64"   -> [err |-> FALSE, v |-> DateFromUnix(value.v, 0)]
    [] value.type = "float64" ->
         [err |-> FALSE, v |-> DateFromUnix(Seconds(Int64OfFloat(value.v)), 0)]
    [] value.type \in {"string", "[]byte"} ->
         LET r == stdParse(dateLayout, value.v)
         IN  IF r.err THEN [err |-> TRUE, v |-> d] ELSE [err |-> FALSE, v |-> r.t]
    [] value.type = "time.Time" -> [err |-> FALSE, v |-> DateFromStdTime(value.v)]
    [] OTHER -> ScanTypeError(d, value, "date")

\* ------------------------------------------------------------------------
\* time.Duration, kept as [s, ns]: s whole seconds plus 0 <= ns < 1e9
\* ------------------------------------------------------------------------

Dur(s, ns) == [s |-> s + ns \div 1000000000, ns |-> ns % 1000000000]

DurNeg(d) == Dur(-d.s, -d.ns)

DurSub(a, b) == Dur(a.s - b.s, a.ns - b.ns)

DurLess(a, b) == a.s < b.s \/ (a.s = b.s /\ a.ns < b.ns)

DurPositive(d) == d.s > 0 \/ (d.s = 0 /\ d.ns > 0)

\* t.Add(d)
stdAdd(t, d) ==
  LET n   == t.ns + d.ns
      sec == t.sod + d.s + n \div 1000000000
  IN  [day |-> t.day + sec \div SecondsPerDay,
       sod |-> sec % SecondsPerDay,
       ns  |-> n % 1000000000,
       loc |-> t.loc]

\* the differences that fit [s, ns] with s in 32 bits (some 68 years)
SubFits(t, u) == (t.day - u.day < 24000) /\ (u.day - t.day < 24000)

\* t.Sub(u), where the difference fits
stdSub(t, u) ==
  Dur((t.day - u.day) * SecondsPerDay + (t.sod - u.sod), t.ns - u.ns)

\* the remainder of the time since the zero time modulo d, for the two fast
\* paths of the library: d below a second dividing half a second, and d a
\* whole number of seconds (at most an hour, to stay within 32 bits)
stdModDuration(t, d) ==
  IF d.s = 0
  THEN Dur(0, t.ns % d.ns)
  ELSE Dur((((t.day % d.s) * (SecondsPerDay % d.s)) + t.sod) % d.s, t.ns)

\* the durations stdModDuration covers
FastDuration(d) ==
  \/ d.s = 0 /\ d.ns > 0 /\ 1000000000 % (2 * d.ns) = 0
  \/ d.ns = 0 /\ d.s > 0 /\ d.s <= 3600

\* t.Truncate(d)
stdTruncate(t, d) ==
  IF ~DurPositive(d) THEN t
  ELSE stdAdd(t, DurNeg(stdModDuration(t, d)))

\* t.Round(d): halfway values round up
stdRound(t, d) ==
  IF ~DurPositive(d) THEN t
  ELSE LET r == stdModDuration(t, d)
       IN  IF DurLess(Dur(r.s + r.s, r.ns + r.ns), d) THEN stdAdd(t, DurNeg(r))
           ELSE stdAdd(t, DurSub(d, r))

\* ------------------------------------------------------------------------
\* Time (src/unnamed/part_000).  A Time is its wrapped time.Time.
\* ------------------------------------------------------------------------

timeLayout == <<"15", ":", "04", ":", "05", "Z07:00">>

quotedTimeLayout == <<"\"">> \o timeLayout \o <<"\"">>

TimeSQLLayout == <<"15", ":", "04", ":", "05", ".999999", "-07">>

\* the location handed in is not used
NewTime(hour, min, sec, nsec, loc) == stdDate(0, 1, 1, hour, min, sec, nsec, UTC)

\* now is what time.Now() returns
TimeFromNow(now) == now

TimeFromString(str) == stdParse(timeLayout, str)

TimeFromStringLocation(str, loc) == stdParseInLocation(timeLayout, str, loc)

TimeFromLayout(layout, str) == stdParse(layout, str)

\* the layout handed in is not used
TimeFromLayoutLocation(layout, str, loc) == stdParseInLocation(timeLayout, str, loc)

\* the wrapping without the pinning: Time{t: t}
TimeOfStdTimeAsIs(t) == t

TimeFromStdTime(t) ==
  stdDate(0, 1, 1, Hour(t), Minute(t), Second(t), Nanosecond(t), Location(t))

TimeFromUnix(sec, nsec) == TimeFromStdTime(stdIn(stdUnix(sec, nsec), UTC))

TimeFromUnixMicro(usec) == TimeFromStdTime(stdIn(stdUnixMicro(usec), UTC))

TimeFromUnixMilli(msec) == TimeFromStdTime(stdIn(stdUnixMilli(msec), UTC))

TimeToStdTime(t) ==
  stdDate(0, 1, 1, Hour(t), Minute(t), Second(t), Nanosecond(t), Location(t))

\* the addition that keeps the date of the sum: Time{t: t.t.Add(dur)}
TimeAddKeepingDate(t, dur) == stdAdd(t, dur)

TimeAdd(t, dur) == TimeFromStdTime(stdAdd(t, dur))

TimeAfter(t, rhs)         == stdAfter(t, rhs)
TimeAfterOrEqual(t, rhs)  == stdAfter(t, rhs) \/ stdEqual(t, rhs)
TimeBefore(t, rhs)        == stdBefore(t, rhs)
TimeBeforeOrEqual(t, rhs) == stdBefore(t, rhs) \/ stdEqual(t, rhs)
TimeEqual(t, rhs)         == stdEqual(t, rhs)

\* the range check with both bounds let in
TimeBetweenInclusive(t, start, end) ==
  TimeAfterOrEqual(t, start) /\ TimeBeforeOrEqual(t, end)

TimeBetween(t, start, end) == stdAfter(t, start) /\ stdBefore(t, end)

TimeBetweenOrEqual(t, start, end) ==
  TimeAfterOrEqual(t, start) /\ TimeBeforeOrEqual(t, end)

TimeIn(t, loc)       == stdIn(t, loc)
TimeLocal(t)         == stdIn(t, Local)
TimeUTC(t)           == stdIn(t, UTC)
TimeRound(t, dur)    == stdRound(t, dur)
TimeTruncate(t, dur) == stdTruncate(t, dur)
TimeSub(t, u)        == stdSub(t, u)

TimeString(t) == stdFormat(t, timeLayout)

TimeMarshalJSON(t) == stdFormat(t, quotedTimeLayout)

TimeMarshalText(t) == TimeString(t)

TimeValue(t) == stdFormat(t, TimeSQLLayout)

\* Time.MarshalBinary of package time: <<version, seconds since the zero time
\* as [day, sod], nanoseconds, zone offset in minutes (-1 for UTC)>>; an
\* offset that is no whole number of minutes, or of exactly -1 minute, is an
\* error.  [err, data]
stdMarshalBinary(t) ==
  IF t.loc = UTC
  THEN [err |-> FALSE, data |-> <<1, [day |-> t.day, sod |-> t.sod], t.ns, -1>>]
  ELSE IF (t.loc.off % 60 # 0) \/ (t.loc.off = -60)
       THEN [err |-> TRUE, data |-> <<>>]
       ELSE [err |-> FALSE,
             data |-> <<1, [day |-> t.day, sod |-> t.sod], t.ns, t.loc.off \div 60>>]

\* Time.UnmarshalBinary of package time: [err, t]
stdUnmarshalBinary(data) ==
  IF Len(data) # 4 \/ data[1] # 1 THEN [err |-> TRUE, t |-> ZeroTime]
  ELSE LET off == data[4] * 60
           loc == IF data[4] = -1 THEN UTC
                  ELSE IF off = Local.off THEN Local ELSE FixedZone("", off)
       IN  [err |-> FALSE,
            t   |-> [day |-> data[2].day, sod |-> data[2].sod, ns |-> data[3],
                     loc |-> loc]]

TimeMarshalBinary(t) == stdMarshalBinary(t)

TimeUnmarshalBinary(d, data) ==
  LET r == stdUnmarshalBinary(data)
  IN  IF r.err THEN [err |-> TRUE, v |-> d] ELSE [err |-> FALSE, v |-> r.t]

TimeUnmarshalJSON(d, data) ==
  LET r == stdParse(quotedTimeLayout, data)
  IN  IF r.err THEN [err |-> TRUE, v |-> d] ELSE [err |-> FALSE, v |-> r.t]

TimeUnmarshalText(d, data) ==
  LET r == stdParse(timeLayout, data)
  IN  IF r.err THEN [err |-> TRUE, v |-> d] ELSE [err |-> FALSE, v |-> r.t]

\* the scan without the case of nil, as DateTime.Scan has it
TimeScanWithoutNil(t, value) ==
  CASE value.type = "int64"   -> [err |-> FALSE, v |-> TimeFromUnix(value.v, 0)]
    [] value.type = "float64" ->
         [err |-> FALSE, v |-> TimeFromUnix(Seconds(Int64OfFloat(value.v)), 0)]
    [] value.type \in {"string", "[]byte"} ->
         LET r == stdParse(TimeSQLLayout, value.v)
         IN  IF r.err THEN [err |-> TRUE, v |-> t] ELSE [err |-> FALSE, v |-> r.t]
    [] value.type = "time.Time" -> [err |-> FALSE, v |-> TimeFromStdTime(value.v)]
    [] OTHER -> [err |-> TRUE, v |-> t]

TimeScan(t, value) ==
  CASE value.type = "nil"     -> [err |-> FALSE, v |-> ZeroTime]
    [] value.type = "int64"   -> [err |-> FALSE, v |-> TimeFromUnix(value.v, 0)]
    [] value.type = "float64" ->
         [err |-> FALSE, v |-> TimeFromUnix(Seconds(Int64OfFloat(value.v)), 0)]
    [] value.type \in {"string", "[]byte"} ->
         LET r == stdParse(TimeSQLLayout, value.v)
         IN  IF r.err THEN [err |-> TRUE, v |-> t] ELSE [err |-> FALSE, v |-> r.t]
    [] value.type = "time.Time" -> [err |-> FALSE, v |-> TimeFromStdTime(value.v)]
    [] OTHER -> ScanTypeError(t, value, "time")

\* Time.MarshalText of package time: RFC3339 with nanoseconds, refused for a
\* year outside 0..9999.  [err, data]
stdMarshalText(t) ==
  IF Year(t) < 0 \/ Year(t) >= 10000 THEN [err |-> TRUE, data |-> <<>>]
  ELSE [err |-> FALSE,
        data |-> stdFormat(t, <<"2006", "-", "01", "-", "02", "T", "15", ":", "04", ":",
                                "05", ".999999999", "Z07:00">>)]

\* Time.MarshalJSON of package time: the text in double quotes
stdMarshalJSON(t) ==
  IF stdMarshalText(t).err THEN [err |-> TRUE, data |-> <<>>]
  ELSE [err |-> FALSE, data |-> <<"\"">> \o stdMarshalText(t).data \o <<"\"">>]

\* Time.UnmarshalText of package time: [err, t]
stdUnmarshalText(data) ==
  stdParse(<<"2006", "-", "01", "-", "02", "T", "15", ":", "04", ":", "05", "Z07:00">>,
           data)

\* Time.UnmarshalJSON of package time: null is a no-op that leaves t, else
\* the text between double quotes.  [err, t]
stdUnmarshalJSON(t, data) ==
  IF data = <<"n", "u", "l", "l">> THEN [err |-> FALSE, t |-> t]
  ELSE IF Len(data) < 2 \/ data[1] # "\"" \/ data[Len(data)] # "\""
       THEN [err |-> TRUE, t |-> t]
       ELSE stdUnmarshalText(SubSeq(data, 2, Len(data) - 1))

\* ------------------------------------------------------------------------
\* DateTime (src/date_time.go).  A DateTime is its wrapped time.Time.
\* ------------------------------------------------------------------------

RFC3339 == <<"2006", "-", "01", "-", "02", "T", "15", ":", "04", ":", "05", "Z07:00">>

dateTimeSQLLayout == <<"2006", "-", "01", "-", "02", " ", "15", ":", "04", ":", "05", "-07">>

NewDateTime(year, month, day, hour, min, sec, nsec, loc) ==
  stdDate(year, month, day, hour, min, sec, nsec, loc)

\* now is what time.Now() returns
DateTimeFromNow(now) == now

DateTimeFromString(str) == stdParse(RFC3339, str)

DateTimeFromStringLocation(str, loc) == stdParseInLocation(RFC3339, str, loc)

DateTimeFromUnix(sec, nsec) == stdUnix(sec, nsec)

DateTimeFromStdTime(t) == t

DateTimeAdd(d, dur) == stdAdd(d, dur)

DateTimeAddDate(d, years, months, days) == stdAddDate(d, years, months, days)

\* the comparison of the structs, d == rhs, locations included
DateTimeSameStruct(d, rhs) == d = rhs

\* the comparison with the equal instant let in
DateTimeBeforeOrSame(d, rhs) == stdBefore(d, rhs) \/ stdEqual(d, rhs)

DateTimeAfter(d, rhs)         == stdAfter(d, rhs)
DateTimeAfterOrEqual(d, rhs)  == stdAfter(d, rhs) \/ stdEqual(d, rhs)
DateTimeBefore(d, rhs)        == stdBefore(d, rhs)
DateTimeBeforeOrEqual(d, rhs) == stdBefore(d, rhs) \/ stdEqual(d, rhs)
DateTimeEqual(d, rhs)         == stdEqual(d, rhs)

DateTimeMarshalBinary(d) == stdMarshalBinary(d)

DateTimeMarshalJSON(d) == stdMarshalJSON(d)

DateTimeMarshalText(d) == stdMarshalText(d)

\* a zero time.Time is decoded into and, without error, stored
DateTimeUnmarshalBinary(d, data) ==
  IF stdUnmarshalBinary(data).err THEN [err |-> TRUE, v |-> d]
  ELSE [err |-> FALSE, v |-> stdUnmarshalBinary(data).t]

DateTimeUnmarshalJSON(d, data) ==
  IF stdUnmarshalJSON(ZeroTime, data).err THEN [err |-> TRUE, v |-> d]
  ELSE [err |-> FALSE, v |-> stdUnmarshalJSON(ZeroTime, data).t]

DateTimeUnmarshalText(d, data) ==
  IF stdUnmarshalText(data).err THEN [err |-> TRUE, v |-> d]
  ELSE [err |-> FALSE, v |-> stdUnmarshalText(data).t]

\* the gob codec of package time is its binary codec, decoded into d.t itself
DateTimeGobEncode(d) == stdMarshalBinary(d)

DateTimeGobDecode(d, data) ==
  IF stdUnmarshalBinary(data).err THEN [err |-> TRUE, v |-> d]
  ELSE [err |-> FALSE, v |-> stdUnmarshalBinary(data).t]

DateTimeIn(d, loc) == stdIn(d, loc)
DateTimeLocal(d)   == stdIn(d, Local)
DateTimeUTC(d)     == stdIn(d, UTC)

DateTimeValue(d) == stdFormat(d, dateTimeSQLLayout)

\* the scan that resets the receiver on nil, as Date.Scan and Time.Scan do
DateTimeScanResettingOnNil(d, value) ==
  CASE value.type = "nil"     -> [err |-> FALSE, v |-> ZeroTime]
    [] value.type = "int64"   ->
         [err |-> FALSE, v |-> stdIn(stdUnix(value.v, 0), UTC)]
    [] value.type = "float64" ->
         [err |-> FALSE, v |-> stdIn(stdUnix(Seconds(Int64OfFloat(value.v)), 0), UTC)]
    [] value.type \in {"string", "[]byte"} ->
         LET r == stdParse(dateTimeSQLLayout, value.v)
         IN  IF r.err THEN [err |-> TRUE, v |-> d] ELSE [err |-> FALSE, v |-> r.t]
    [] OTHER -> ScanTypeError(d, value, "datetime")

DateTimeScan(d, value) ==
  CASE value.type = "int64"   ->
         [err |-> FALSE, v |-> stdIn(stdUnix(value.v, 0), UTC)]
    [] value.type = "float64" ->
         [err |-> FALSE, v |-> stdIn(stdUnix(Seconds(Int64OfFloat(value.v)), 0), UTC)]
    [] value.type \in {"string", "[]byte"} ->
         LET r == stdParse(dateTimeSQLLayout, value.v)
         IN  IF r.err THEN [err |-> TRUE, v |-> d] ELSE [err |-> FALSE, v |-> r.t]
    [] OTHER -> ScanTypeError(d, value, "datetime")

\* The range checks and the projections of DateTime are called by
\* src/datetime_test.go but their code is not part of the sources at hand:
\* they are modelled from the specification (the comparison suite of the
\* other two types; projections that discard the other axis).
DateTimeBetween(d, start, end) == DateTimeAfter(d, start) /\ DateTimeBefore(d, end)

DateTimeBetweenOrEqual(d, start, end) ==
  DateTimeAfterOrEqual(d, start) /\ DateTimeBeforeOrEqual(d, end)

ToDate(d) == DateFromStdTime(d)

ToTime(d) == TimeFromStdTime(d)

\* ------------------------------------------------------------------------
\* The inputs the operations are tried with
\* ------------------------------------------------------------------------

East == FixedZone("East", 5 * 3600 + 1800)

West == FixedZone("West", -(8 * 3600))

Locations == {UTC, Local, East, West}

\* what time.Now() may return: the local time of the call
Nows == {stdDate(2024, 6, 15, 22, 30, 0, 123456789, Local),
         stdDate(2026, 1, 1, 0, 0, 0, 0, Local)}

StdTimes == Nows \cup {ZeroTime,
                       stdDate(2000, 1, 2, 3, 4, 5, 0, UTC),
                       stdDate(2000, 1, 2, 23, 0, 0, 500, East),
                       stdDate(0, 1, 1, 3, 4, 5, 0, UTC)}

DateInputs ==
  ({2023, 2024} \X {1, 3, 12} \X {29, 30, 31})
  \cup {<<0, 1, 1>>, <<2000, 1, 2>>, <<2024, 2, 29>>, <<2024, 5, 31>>,
        <<9999, 12, 31>>, <<10000, 1, 1>>, <<16383, 12, 31>>, <<16384, 1, 1>>,
        <<-1, 12, 31>>, <<2024, 13, 1>>, <<2024, 3, 0>>, <<300000, 1, 1>>, <<16384, 2, 1>>}

\* the month counts handed to AddMonthsNoOverflow
MonthCounts == ((-MaxMonths)..MaxMonths) \cup {-25, -12, 12, 25}

DateDeltas == {<<0, 0, 1>>, <<0, 0, -1>>, <<0, 1, 0>>, <<1, 0, 0>>, <<-1, -1, -1>>}

\* the dates the comparisons are made with
DateOperands == {NewDate(2000, 1, 2), NewDate(2024, 1, 31), NewDate(2024, 2, 29)}

\* the dates the ranges are made of
DateBounds == {NewDate(2000, 1, 2), NewDate(2024, 2, 29)}

DateStrings ==
  {<<"2", "0", "0", "0", "-", "0", "1", "-", "0", "2">>,
   <<"2", "0", "2", "4", "-", "0", "2", "-", "2", "9">>,
   <<"2", "0", "2", "3", "-", "0", "2", "-", "2", "9">>,
   <<"1", "0", "0", "0", "0", "-", "0", "1", "-", "0", "1">>,
   <<"2", "0", "0", "0", "-", "0", "1", "-", "0", "2", "T">>}

dateUnquoted == <<"2", "0", "0", "0", "-", "0", "1", "-", "0", "2">>

\* layouts handed to DateFromLayout and TimeFromLayout
monthDayYear == <<"01", "/", "02", "/", "2006">>

dateTimeSpaced == <<"2006", "-", "01", "-", "02", " ", "15", ":", "04", ":", "05">>

dottedClock == <<"15", ".", "04", ".", "05">>

LayoutStrings ==
  {<<"0", "2", "/", "2", "9", "/", "2", "0", "2", "4">>,
   <<"2", "0", "2", "4", "-", "0", "6", "-", "1", "5", " ", "2", "2", ":", "3", "0", ":",
     "0", "0">>,
   <<"1", "5", ".", "0", "4", ".", "0", "5">>,
   <<"0", "3", ":", "0", "4", ":", "0", "5", "Z">>}

UnixSeconds == {Seconds(0), Seconds(946771200), Seconds(946695845), Seconds(-1)}

\* Unix milli- and microseconds
UnixFractions == {Fraction(946771200, 0), Fraction(946695845, 999), Fraction(-1, 1)}

\* float64 values handed to Scan, in halves
FloatHalves == {1893391691, -3}

\* ------------------------------------------------------------------------
\* The state machine.  A behaviour follows one variable of a wrapper type
\* from its declaration (the zero value).
\* recv  : the value the variable holds, [kind, t] with kind the wrapper type
\* call  : the last call made: its name, the receiver it was made on, its
\*         arguments, what it returned and whether it returned an error;
\*         for a decode call, src is the value whose encoding it was handed
\* wire  : the output of a marshal call until the next call, with the value
\*         it encodes
\* depth : how many calls have changed the variable since it was constructed
\* ------------------------------------------------------------------------

Val(kind, t) == [kind |-> kind, t |-> t]

NoRecv == [kind |-> "none", t |-> ZeroTime]

NoWire == [fmt |-> "none", kind |-> "none", data |-> <<>>, src |-> ZeroTime]

NoSrc == [known |-> FALSE, t |-> ZeroTime]

Quote(str) == <<"\"">> \o str \o <<"\"">>

\* a constructor returns v (the zero value next to an error), which is
\* assigned to the variable declared
Construct(op, kind, args, v, err) ==
  /\ recv.kind = kind
  /\ recv' = Val(kind, v)
  /\ call' = [op |-> op, recv |-> NoRecv, args |-> args, ret |-> v, err |-> err,
              src |-> NoSrc, msg |-> ""]
  /\ wire' = NoWire
  /\ depth' = 0

\* a constructor is handed the value a method of src has just returned
Reconstruct(op, kind, args, v) ==
  /\ recv' = Val(kind, v)
  /\ call' = [op |-> op, recv |-> NoRecv, args |-> args, ret |-> v, err |-> FALSE,
              src |-> [known |-> TRUE, t |-> wire.src], msg |-> ""]
  /\ wire' = NoWire
  /\ UNCHANGED depth

\* a method returns the value v, which the caller keeps in place of recv
Derive(op, kind, args, v) ==
  /\ depth < MaxDepth
  /\ recv' = Val(kind, v)
  /\ call' = [op |-> op, recv |-> recv, args |-> args, ret |-> v, err |-> FALSE,
              src |-> NoSrc, msg |-> ""]
  /\ wire' = NoWire
  /\ depth' = depth + 1

\* a method returns something that is no wrapper value
Query(op, args, ret) ==
  /\ call' = [op |-> op, recv |-> recv, args |-> args, ret |-> ret, err |-> FALSE,
              src |-> NoSrc, msg |-> ""]
  /\ wire' = NoWire
  /\ UNCHANGED <<recv, depth>>

\* a marshal method returns data
Marshal(op, fmt, data, err) ==
  /\ call' = [op |-> op, recv |-> recv, args |-> <<>>, ret |-> data, err |-> err,
              src |-> NoSrc, msg |-> ""]
  /\ wire' = IF err THEN NoWire
             ELSE [fmt |-> fmt, kind |-> recv.kind, data |-> data, src |-> recv.t]
  /\ UNCHANGED <<recv, depth>>

\* a decode entry point writes its receiver in place: the variable followed,
\* or a newly declared one (zero) that is followed from then on; d is what the
\* receiver holds before the call and r, [err, v], the outcome
Decode(op, d, value, r, src) ==
  /\ depth < MaxDepth
  /\ recv' = [recv EXCEPT !.t = r.v]
  /\ call' = [op |-> op, recv |-> [recv EXCEPT !.t = d], args |-> <<value>>,
              ret |-> r.v, err |-> r.err, src |-> src,
              msg |-> IF "msg" \in DOMAIN r THEN r.msg ELSE ""]
  /\ wire' = NoWire
  /\ depth' = depth + 1

\* the last call was the marshal method of format fmt on a value of this kind
OnWire(kind, fmt) == wire.fmt = fmt /\ wire.kind = kind

WireSrc == [known |-> TRUE, t |-> wire.src]

\* the receivers a round trip decodes into
Receivers == {recv.t, ZeroTime}

\* ---- Date ----

DoNewDate ==
  /\ call.op = "none"
  /\ \E a \in DateInputs :
       Construct("NewDate", "Date", a, NewDate(a[1], a[2], a[3]), FALSE)

DoDateFromNow ==
  /\ call.op = "none"
  /\ \E now \in Nows :
       Construct("DateFromNow", "Date", <<now>>, DateFromStdTime(now), FALSE)

DoDateFromString ==
  /\ call.op = "none"
  /\ \E str \in DateStrings :
       LET r == DateFromString(str)
       IN  Construct("DateFromString", "Date", <<str>>, r.v, r.err)

DoDateFromLayout ==
  /\ call.op = "none"
  /\ \E layout \in {dateLayout, monthDayYear, dateTimeSpaced}, str \in LayoutStrings :
       LET r == DateFromLayout(layout, str)
       IN  Construct("DateFromLayout", "Date", <<layout, str>>, r.v, r.err)

DoDateFromStdTime ==
  /\ call.op = "none"
  /\ \E t \in StdTimes :
       Construct("DateFromStdTime", "Date", <<t>>, DateFromStdTime(t), FALSE)

DoDateFromUnix ==
  /\ recv.kind = "Date"
  /\ \/ /\ call.op = "none"
        /\ \E sec \in UnixSeconds, nsec \in {0, 999999999} :
             Construct("DateFromUnix", "Date", <<sec, nsec>>, DateFromUnix(sec, nsec), FALSE)
     \/ /\ OnWire("Date", "unix")
        /\ Reconstruct("DateFromUnix", "Date", <<wire.data, 0>>, DateFromUnix(wire.data, 0))

DoDateFromUnixMicro ==
  /\ recv.kind = "Date"
  /\ \/ /\ call.op = "none"
        /\ \E usec \in UnixFractions :
             Construct("DateFromUnixMicro", "Date", <<usec>>, DateFromUnixMicro(usec), FALSE)
     \/ /\ OnWire("Date", "unixmicro")
        /\ Reconstruct("DateFromUnixMicro", "Date", <<wire.data>>, DateFromUnixMicro(wire.data))

DoDateFromUnixMilli ==
  /\ recv.kind = "Date"
  /\ \/ /\ call.op = "none"
        /\ \E msec \in UnixFractions :
             Construct("DateFromUnixMilli", "Date", <<msec>>, DateFromUnixMilli(msec), FALSE)
     \/ /\ OnWire("Date", "unixmilli")
        /\ Reconstruct("DateFromUnixMilli", "Date", <<wire.data>>, DateFromUnixMilli(wire.data))

DoDateUnix ==
  /\ recv.kind = "Date"
  /\ Marshal("Date.Unix", "unix", DateUnix(recv.t), FALSE)

DoDateUnixMicro ==
  /\ recv.kind = "Date"
  /\ Marshal("Date.UnixMicro", "unixmicro", DateUnixMicro(recv.t), FALSE)

DoDateUnixMilli ==
  /\ recv.kind = "Date"
  /\ Marshal("Date.UnixMilli", "unixmilli", DateUnixMilli(recv.t), FALSE)

DoAddDate ==
  /\ recv.kind = "Date"
  /\ \E a \in DateDeltas :
       Derive("Date.AddDate", "Date", a, AddDate(recv.t, a[1], a[2], a[3]))

DoAddMonthsNoOverflow ==
  /\ recv.kind = "Date"
  /\ \E m \in MonthCounts :
       Derive("Date.AddMonthsNoOverflow", "Date", <<m>>, AddMonthsNoOverflow(recv.t, m))

DoPreviousMonthLastDay ==
  /\ recv.kind = "Date"
  /\ Derive("Date.PreviousMonthLastDay", "Date", <<>>, PreviousMonthLastDay(recv.t))

\* the five comparisons of recv with rhs
DoDateCompare ==
  /\ recv.kind = "Date"
  /\ \E rhs \in DateOperands \cup {recv.t} :
       Query("Date.Compare", <<rhs>>,
             [after         |-> DateAfter(recv.t, rhs),
              afterOrEqual  |-> DateAfterOrEqual(recv.t, rhs),
              before        |-> DateBefore(recv.t, rhs),
              beforeOrEqual |-> DateBeforeOrEqual(recv.t, rhs),
              equal         |-> DateEqual(recv.t, rhs)])

\* the two range checks of recv
DoDateBetween ==
  /\ recv.kind = "Date"
  /\ \E start \in DateBounds \cup {recv.t}, end \in DateBounds \cup {recv.t} :
       Query("Date.Between", <<start, end>>,
             [between        |-> DateBetween(recv.t, start, end),
              betweenOrEqual |-> DateBetweenOrEqual(recv.t, start, end)])

DoDateMarshalBinary ==
  /\ recv.kind = "Date"
  /\ Marshal("Date.MarshalBinary", "binary", DateMarshalBinary(recv.t), FALSE)

DoDateMarshalJSON ==
  /\ recv.kind = "Date"
  /\ Marshal("Date.MarshalJSON", "json", DateMarshalJSON(recv.t), FALSE)

DoDateMarshalText ==
  /\ recv.kind = "Date"
  /\ Marshal("Date.MarshalText", "text", DateMarshalText(recv.t), FALSE)

DoDateValue ==
  /\ recv.kind = "Date"
  /\ Marshal("Date.Value", "sql", DateValue(recv.t), FALSE)

DateBinaryInputs ==
  {<<>>, <<1>>, <<1, 2>>, <<1, 2, 3>>, <<0, 0, 0, 0>>, <<208, 71, 8, 0>>, <<208, 71, 8, 128>>,
   <<255, 255, 255, 255>>, <<0, 0, 0, 0, 0>>, <<232, 135, 124, 0>>, <<232, 71, 7, 0>>}

DoDateUnmarshalBinary ==
  /\ recv.kind = "Date"
  /\ \/ \E data \in DateBinaryInputs :
          Decode("Date.UnmarshalBinary", recv.t, data, DateUnmarshalBinary(recv.t, data), NoSrc)
     \/ /\ OnWire("Date", "binary")
        /\ \E d \in Receivers :
             Decode("Date.UnmarshalBinary", d, wire.data, DateUnmarshalBinary(d, wire.data), WireSrc)

DoDateUnmarshalJSON ==
  /\ recv.kind = "Date"
  /\ \/ \E data \in {Quote(x) : x \in DateStrings} \cup {dateUnquoted} :
          Decode("Date.UnmarshalJSON", recv.t, data, DateUnmarshalJSON(recv.t, data), NoSrc)
     \/ /\ OnWire("Date", "json")
        /\ \E d \in Receivers :
             Decode("Date.UnmarshalJSON", d, wire.data, DateUnmarshalJSON(d, wire.data), WireSrc)

DoDateUnmarshalText ==
  /\ recv.kind = "Date"
  /\ \/ \E data \in DateStrings :
          Decode("Date.UnmarshalText", recv.t, data, DateUnmarshalText(recv.t, data), NoSrc)
     \/ /\ OnWire("Date", "text")
        /\ \E d \in Receivers :
             Decode("Date.UnmarshalText", d, wire.data, DateUnmarshalText(d, wire.data), WireSrc)

\* the values handed to Scan: nil, numbers and values of unsupported types
ScanNumbers ==
  {[type |-> "nil", v |-> 0], [type |-> "int32", v |-> 5], [type |-> "bool", v |-> 1]}
  \cup {[type |-> "float64", v |-> x] : x \in FloatHalves}

ScanSeconds == {[type |-> "int64", v |-> x] : x \in UnixSeconds}

ScanTimes == {[type |-> "time.Time", v |-> x] : x \in StdTimes}

ScanTexts(strs) ==
  {[type |-> "string", v |-> x] : x \in strs} \cup {[type |-> "[]byte", v |-> x] : x \in strs}

DoDateScan ==
  /\ recv.kind = "Date"
  /\ \/ \E value \in ScanNumbers :
          Decode("Date.Scan", recv.t, value, DateScan(recv.t, value), NoSrc)
     \/ \E value \in ScanSeconds :
          Decode("Date.Scan", recv.t, value, DateScan(recv.t, value), NoSrc)
     \/ \E value \in ScanTimes :
          Decode("Date.Scan", recv.t, value, DateScan(recv.t, value), NoSrc)
     \/ \E value \in ScanTexts(DateStrings) :
          Decode("Date.Scan", recv.t, value, DateScan(recv.t, value), NoSrc)
     \/ /\ OnWire("Date", "sql")
        /\ \E value \in ScanTexts({wire.data}), d \in Receivers :
             Decode("Date.Scan", d, value, DateScan(d, value), WireSrc)

DateNext ==
  \/ DoNewDate \/ DoDateFromNow \/ DoDateFromString \/ DoDateFromLayout
  \/ DoDateFromStdTime \/ DoDateFromUnix \/ DoDateFromUnixMicro \/ DoDateFromUnixMilli
  \/ DoAddDate \/ DoAddMonthsNoOverflow \/ DoPreviousMonthLastDay
  \/ DoDateCompare \/ DoDateBetween
  \/ DoDateUnix \/ DoDateUnixMicro \/ DoDateUnixMilli
  \/ DoDateMarshalBinary \/ DoDateMarshalJSON \/ DoDateMarshalText \/ DoDateValue
  \/ DoDateUnmarshalBinary \/ DoDateUnmarshalJSON \/ DoDateUnmarshalText \/ DoDateScan

\* ---- Time ----

TimeInputs == {<<0, 0, 0, 0>>, <<3, 4, 5, 0>>, <<3, 4, 30, 0>>, <<12, 30, 30, 500>>,
               <<1, 0, 0, 123456000>>, <<23, 0, 0, 0>>, <<23, 59, 59, 999999999>>}

TimeStrings ==
  {<<"0", "3", ":", "0", "4", ":", "0", "5", "Z">>,
   <<"2", "3", ":", "5", "9", ":", "5", "9", "-", "0", "5", ":", "0", "0">>,
   <<"0", "3", ":", "0", "4", ":", "0", "5", "+", "0", "5", ":", "3", "0">>,
   <<"0", "3", ":", "0", "4", ":", "0", "5", ".", "5", "Z">>,
   <<"0", "3", ":", "0", "4", ":", "0", "5">>,
   <<"2", "5", ":", "0", "4", ":", "0", "5", "Z">>}

TimeSQLStrings ==
  {<<"0", "3", ":", "0", "4", ":", "0", "5", "+", "0", "0">>,
   <<"0", "3", ":", "0", "4", ":", "0", "5", ".", "1", "2", "3", "4", "5", "6", "-", "0", "8">>,
   <<"2", "3", ":", "5", "9", ":", "5", "9", "-", "0", "5">>,
   <<"0", "3", ":", "0", "4", ":", "0", "5", "Z">>}

TimeDurations == {Dur(3600, 0), Dur(-3600, 0), Dur(7200, 0), Dur(30, 0), Dur(0, 1),
                  Dur(0, -1), Dur(24 * 3600, 0)}

RoundDurations == {Dur(3600, 0), Dur(60, 0), Dur(1, 0), Dur(0, 500000000), Dur(0, 1000),
                   Dur(0, 0), Dur(-1, 0)}

TimeOperands == {NewTime(3, 4, 0, 0, UTC), NewTime(3, 4, 30, 0, UTC),
                 NewTime(23, 0, 0, 0, UTC), stdDate(0, 1, 1, 8, 34, 30, 0, East)}

TimeBounds == {NewTime(3, 4, 0, 0, UTC), NewTime(23, 0, 0, 0, UTC)}

TimeBinaryInputs ==
  {stdMarshalBinary(t).data : t \in StdTimes} \cup {<<>>, <<2, 0, 0, 0>>}

DoNewTime ==
  /\ call.op = "none"
  /\ \E a \in TimeInputs, loc \in {UTC, East} :
       Construct("NewTime", "Time", <<a, loc>>, NewTime(a[1], a[2], a[3], a[4], loc), FALSE)

DoTimeFromNow ==
  /\ call.op = "none"
  /\ \E now \in Nows :
       Construct("TimeFromNow", "Time", <<now>>, TimeFromNow(now), FALSE)

DoTimeFromString ==
  /\ call.op = "none"
  /\ \E str \in TimeStrings :
       LET r == TimeFromString(str)
       IN  Construct("TimeFromString", "Time", <<str>>, r.t, r.err)

DoTimeFromStringLocation ==
  /\ call.op = "none"
  /\ \E str \in TimeStrings, loc \in {UTC, East} :
       LET r == TimeFromStringLocation(str, loc)
       IN  Construct("TimeFromStringLocation", "Time", <<str, loc>>, r.t, r.err)

DoTimeFromLayout ==
  /\ call.op = "none"
  /\ \E layout \in {timeLayout, dottedClock, dateTimeSpaced}, str \in LayoutStrings :
       LET r == TimeFromLayout(layout, str)
       IN  Construct("TimeFromLayout", "Time", <<layout, str>>, r.t, r.err)

DoTimeFromLayoutLocation ==
  /\ call.op = "none"
  /\ \E layout \in {timeLayout, dottedClock, dateTimeSpaced}, str \in LayoutStrings,
        loc \in {UTC, East} :
       LET r == TimeFromLayoutLocation(layout, str, loc)
       IN  Construct("TimeFromLayoutLocation", "Time", <<layout, str, loc>>, r.t, r.err)

DoTimeFromStdTime ==
  /\ call.op = "none"
  /\ \E t \in StdTimes :
       Construct("TimeFromStdTime", "Time", <<t>>, TimeFromStdTime(t), FALSE)

DoTimeFromUnix ==
  /\ call.op = "none"
  /\ \E sec \in UnixSeconds, nsec \in {0, 999999999} :
       Construct("TimeFromUnix", "Time", <<sec, nsec>>, TimeFromUnix(sec, nsec), FALSE)

DoTimeFromUnixMicro ==
  /\ call.op = "none"
  /\ \E usec \in UnixFractions :
       Construct("TimeFromUnixMicro", "Time", <<usec>>, TimeFromUnixMicro(usec), FALSE)

DoTimeFromUnixMilli ==
  /\ call.op = "none"
  /\ \E msec \in UnixFractions :
       Construct("TimeFromUnixMilli", "Time", <<msec>>, TimeFromUnixMilli(msec), FALSE)

DoTimeAdd ==
  /\ recv.kind = "Time"
  /\ \E dur \in TimeDurations :
       Derive("Time.Add", "Time", <<dur>>, TimeAdd(recv.t, dur))

DoTimeRound ==
  /\ recv.kind = "Time"
  /\ \E dur \in RoundDurations :
       Derive("Time.Round", "Time", <<dur>>, TimeRound(recv.t, dur))

DoTimeTruncate ==
  /\ recv.kind = "Time"
  /\ \E dur \in RoundDurations :
       Derive("Time.Truncate", "Time", <<dur>>, TimeTruncate(recv.t, dur))

DoTimeIn ==
  /\ recv.kind = "Time"
  /\ \E loc \in Locations :
       Derive("Time.In", "Time", <<loc>>, TimeIn(recv.t, loc))

DoTimeLocal ==
  /\ recv.kind = "Time"
  /\ Derive("Time.Local", "Time", <<>>, TimeLocal(recv.t))

DoTimeUTC ==
  /\ recv.kind = "Time"
  /\ Derive("Time.UTC", "Time", <<>>, TimeUTC(recv.t))

DoTimeCompare ==
  /\ recv.kind = "Time"
  /\ \E rhs \in TimeOperands \cup {recv.t} :
       Query("Time.Compare", <<rhs>>,
             [after         |-> TimeAfter(recv.t, rhs),
              afterOrEqual  |-> TimeAfterOrEqual(recv.t, rhs),
              before        |-> TimeBefore(recv.t, rhs),
              beforeOrEqual |-> TimeBeforeOrEqual(recv.t, rhs),
              equal         |-> TimeEqual(recv.t, rhs)])

DoTimeBetween ==
  /\ recv.kind = "Time"
  /\ \E start \in TimeBounds \cup {recv.t}, end \in TimeBounds \cup {recv.t} :
       Query("Time.Between", <<start, end>>,
             [between        |-> TimeBetween(recv.t, start, end),
              betweenOrEqual |-> TimeBetweenOrEqual(recv.t, start, end)])

DoTimeSub ==
  /\ recv.kind = "Time"
  /\ \E u \in TimeOperands :
       /\ SubFits(recv.t, u)
       /\ Query("Time.Sub", <<u>>, TimeSub(recv.t, u))

DoTimeToStdTime ==
  /\ recv.kind = "Time"
  /\ Query("Time.ToStdTime", <<>>, TimeToStdTime(recv.t))

DoTimeMarshalBinary ==
  /\ recv.kind = "Time"
  /\ LET r == TimeMarshalBinary(recv.t)
     IN  Marshal("Time.MarshalBinary", "binary", r.data, r.err)

DoTimeMarshalJSON ==
  /\ recv.kind = "Time"
  /\ Marshal("Time.MarshalJSON", "json", TimeMarshalJSON(recv.t), FALSE)

DoTimeMarshalText ==
  /\ recv.kind = "Time"
  /\ Marshal("Time.MarshalText", "text", TimeMarshalText(recv.t), FALSE)

DoTimeValue ==
  /\ recv.kind = "Time"
  /\ Marshal("Time.Value", "sql", TimeValue(recv.t), FALSE)

DoTimeUnmarshalBinary ==
  /\ recv.kind = "Time"
  /\ \/ \E data \in TimeBinaryInputs :
          Decode("Time.UnmarshalBinary", recv.t, data,
                 TimeUnmarshalBinary(recv.t, data), NoSrc)
     \/ /\ OnWire("Time", "binary")
        /\ \E d \in Receivers :
             Decode("Time.UnmarshalBinary", d, wire.data,
                    TimeUnmarshalBinary(d, wire.data), WireSrc)

DoTimeUnmarshalJSON ==
  /\ recv.kind = "Time"
  /\ \/ \E data \in {Quote(x) : x \in TimeStrings} :
          Decode("Time.UnmarshalJSON", recv.t, data,
                 TimeUnmarshalJSON(recv.t, data), NoSrc)
     \/ /\ OnWire("Time", "json")
        /\ \E d \in Receivers :
             Decode("Time.UnmarshalJSON", d, wire.data,
                    TimeUnmarshalJSON(d, wire.data), WireSrc)

DoTimeUnmarshalText ==
  /\ recv.kind = "Time"
  /\ \/ \E data \in TimeStrings :
          Decode("Time.UnmarshalText", recv.t, data,
                 TimeUnmarshalText(recv.t, data), NoSrc)
     \/ /\ OnWire("Time", "text")
        /\ \E d \in Receivers :
             Decode("Time.UnmarshalText", d, wire.data,
                    TimeUnmarshalText(d, wire.data), WireSrc)

DoTimeScan ==
  /\ recv.kind = "Time"
  /\ \/ \E value \in ScanNumbers :
          Decode("Time.Scan", recv.t, value, TimeScan(recv.t, value), NoSrc)
     \/ \E value \in ScanSeconds :
          Decode("Time.Scan", recv.t, value, TimeScan(recv.t, value), NoSrc)
     \/ \E value \in ScanTimes :
          Decode("Time.Scan", recv.t, value, TimeScan(recv.t, value), NoSrc)
     \/ \E value \in ScanTexts(TimeSQLStrings) :
          Decode("Time.Scan", recv.t, value, TimeScan(recv.t, value), NoSrc)
     \/ /\ OnWire("Time", "sql")
        /\ \E value \in ScanTexts({wire.data}), d \in Receivers :
             Decode("Time.Scan", d, value, TimeScan(d, value), WireSrc)

TimeNext ==
  \/ DoNewTime \/ DoTimeFromNow \/ DoTimeFromString \/ DoTimeFromStringLocation
  \/ DoTimeFromLayout \/ DoTimeFromLayoutLocation \/ DoTimeFromStdTime
  \/ DoTimeFromUnix \/ DoTimeFromUnixMicro \/ DoTimeFromUnixMilli
  \/ DoTimeAdd \/ DoTimeRound \/ DoTimeTruncate \/ DoTimeIn \/ DoTimeLocal \/ DoTimeUTC
  \/ DoTimeCompare \/ DoTimeBetween \/ DoTimeSub \/ DoTimeToStdTime
  \/ DoTimeMarshalBinary \/ DoTimeMarshalJSON \/ DoTimeMarshalText \/ DoTimeValue
  \/ DoTimeUnmarshalBinary \/ DoTimeUnmarshalJSON \/ DoTimeUnmarshalText \/ DoTimeScan

\* ---- DateTime ----

DateTimeInputs == {<<0, 1, 1, 0, 0, 0, 0>>, <<2000, 1, 2, 3, 4, 5, 0>>,
                   <<2000, 1, 2, 3, 4, 30, 0>>, <<2024, 2, 29, 23, 59, 59, 999999999>>,
                   <<2024, 6, 15, 0, 30, 0, 500>>, <<10000, 1, 1, 0, 0, 0, 0>>}

\* a zone one minute west of UTC
MinuteWest == FixedZone("", -60)

DateTimeStrings ==
  {<<"2", "0", "0", "0", "-", "0", "1", "-", "0", "2", "T", "0", "3", ":", "0", "4", ":",
     "0", "5", "Z">>,
   <<"2", "0", "2", "4", "-", "0", "2", "-", "2", "9", "T", "2", "3", ":", "5", "9", ":",
     "5", "9", "-", "0", "5", ":", "0", "0">>,
   <<"2", "0", "0", "0", "-", "0", "1", "-", "0", "2", " ", "0", "3", ":", "0", "4", ":",
     "0", "5", "Z">>}

DateTimeSQLStrings ==
  {<<"2", "0", "0", "0", "-", "0", "1", "-", "0", "2", " ", "0", "3", ":", "0", "4", ":",
     "0", "5", "+", "0", "0">>,
   <<"2", "0", "2", "4", "-", "0", "2", "-", "2", "9", " ", "2", "3", ":", "5", "9", ":",
     "5", "9", "-", "0", "8">>,
   <<"2", "0", "0", "0", "-", "0", "1", "-", "0", "2", "T", "0", "3", ":", "0", "4", ":",
     "0", "5", "Z">>}

DateTimeOperands == {NewDateTime(2000, 1, 2, 3, 4, 30, 0, UTC),
                     NewDateTime(2000, 1, 2, 8, 34, 30, 0, East),
                     NewDateTime(2024, 6, 15, 0, 30, 0, 500, West)}

DateTimeBounds == {NewDateTime(2000, 1, 1, 0, 0, 0, 0, UTC),
                   NewDateTime(2000, 1, 3, 0, 0, 0, 0, UTC)}

DoNewDateTime ==
  /\ call.op = "none"
  /\ \E a \in DateTimeInputs, loc \in Locations \cup {MinuteWest} :
       Construct("NewDateTime", "DateTime", <<a, loc>>,
                 NewDateTime(a[1], a[2], a[3], a[4], a[5], a[6], a[7], loc), FALSE)

DoDateTimeFromNow ==
  /\ call.op = "none"
  /\ \E now \in Nows :
       Construct("DateTimeFromNow", "DateTime", <<now>>, DateTimeFromNow(now), FALSE)

DoDateTimeFromString ==
  /\ call.op = "none"
  /\ \E str \in DateTimeStrings :
       LET r == DateTimeFromString(str)
       IN  Construct("DateTimeFromString", "DateTime", <<str>>, r.t, r.err)

DoDateTimeFromStringLocation ==
  /\ call.op = "none"
  /\ \E str \in DateTimeStrings, loc \in {UTC, East} :
       LET r == DateTimeFromStringLocation(str, loc)
       IN  Construct("DateTimeFromStringLocation", "DateTime", <<str, loc>>, r.t, r.err)

DoDateTimeFromStdTime ==
  /\ call.op = "none"
  /\ \E t \in StdTimes :
       Construct("DateTimeFromStdTime", "DateTime", <<t>>, DateTimeFromStdTime(t), FALSE)

DoDateTimeFromUnix ==
  /\ call.op = "none"
  /\ \E sec \in UnixSeconds, nsec \in {0, 999999999} :
       Construct("DateTimeFromUnix", "DateTime", <<sec, nsec>>,
                 DateTimeFromUnix(sec, nsec), FALSE)

DoDateTimeAdd ==
  /\ recv.kind = "DateTime"
  /\ \E dur \in TimeDurations :
       Derive("DateTime.Add", "DateTime", <<dur>>, DateTimeAdd(recv.t, dur))

DoDateTimeAddDate ==
  /\ recv.kind = "DateTime"
  /\ \E a \in DateDeltas :
       Derive("DateTime.AddDate", "DateTime", a,
              DateTimeAddDate(recv.t, a[1], a[2], a[3]))

DoDateTimeIn ==
  /\ recv.kind = "DateTime"
  /\ \E loc \in Locations :
       Derive("DateTime.In", "DateTime", <<loc>>, DateTimeIn(recv.t, loc))

DoDateTimeLocal ==
  /\ recv.kind = "DateTime"
  /\ Derive("DateTime.Local", "DateTime", <<>>, DateTimeLocal(recv.t))

DoDateTimeUTC ==
  /\ recv.kind = "DateTime"
  /\ Derive("DateTime.UTC", "DateTime", <<>>, DateTimeUTC(recv.t))

DoDateTimeCompare ==
  /\ recv.kind = "DateTime"
  /\ \E rhs \in DateTimeOperands \cup {recv.t} :
       Query("DateTime.Compare", <<rhs>>,
             [after         |-> DateTimeAfter(recv.t, rhs),
              afterOrEqual  |-> DateTimeAfterOrEqual(recv.t, rhs),
              before        |-> DateTimeBefore(recv.t, rhs),
              beforeOrEqual |-> DateTimeBeforeOrEqual(recv.t, rhs),
              equal         |-> DateTimeEqual(recv.t, rhs)])

DoDateTimeBetween ==
  /\ recv.kind = "DateTime"
  /\ \E start \in DateTimeBounds \cup {recv.t}, end \in DateTimeBounds \cup {recv.t} :
       Query("DateTime.Between", <<start, end>>,
             [between        |-> DateTimeBetween(recv.t, start, end),
              betweenOrEqual |-> DateTimeBetweenOrEqual(recv.t, start, end)])

\* the projections: the caller goes on with the Date or the Time
DoToDate ==
  /\ recv.kind = "DateTime"
  /\ Derive("DateTime.ToDate", "Date", <<>>, ToDate(recv.t))

DoToTime ==
  /\ recv.kind = "DateTime"
  /\ Derive("DateTime.ToTime", "Time", <<>>, ToTime(recv.t))

DoDateTimeValue ==
  /\ recv.kind = "DateTime"
  /\ Marshal("DateTime.Value", "sql", DateTimeValue(recv.t), FALSE)

DoDateTimeMarshalBinary ==
  /\ recv.kind = "DateTime"
  /\ Marshal("DateTime.MarshalBinary", "binary", DateTimeMarshalBinary(recv.t).data,
             DateTimeMarshalBinary(recv.t).err)

DoDateTimeMarshalJSON ==
  /\ recv.kind = "DateTime"
  /\ Marshal("DateTime.MarshalJSON", "json", DateTimeMarshalJSON(recv.t).data,
             DateTimeMarshalJSON(recv.t).err)

DoDateTimeMarshalText ==
  /\ recv.kind = "DateTime"
  /\ Marshal("DateTime.MarshalText", "text", DateTimeMarshalText(recv.t).data,
             DateTimeMarshalText(recv.t).err)

DoDateTimeGobEncode ==
  /\ recv.kind = "DateTime"
  /\ Marshal("DateTime.GobEncode", "gob", DateTimeGobEncode(recv.t).data,
             DateTimeGobEncode(recv.t).err)

DoDateTimeUnmarshalBinary ==
  /\ recv.kind = "DateTime"
  /\ \/ \E data \in TimeBinaryInputs :
          Decode("DateTime.UnmarshalBinary", recv.t, data,
                 DateTimeUnmarshalBinary(recv.t, data), NoSrc)
     \/ /\ OnWire("DateTime", "binary")
        /\ \E d \in Receivers :
             Decode("DateTime.UnmarshalBinary", d, wire.data,
                    DateTimeUnmarshalBinary(d, wire.data), WireSrc)

DoDateTimeUnmarshalJSON ==
  /\ recv.kind = "DateTime"
  /\ \/ \E data \in {Quote(str) : str \in DateTimeStrings} \cup {<<"n", "u", "l", "l">>} :
          Decode("DateTime.UnmarshalJSON", recv.t, data,
                 DateTimeUnmarshalJSON(recv.t, data), NoSrc)
     \/ /\ OnWire("DateTime", "json")
        /\ \E d \in Receivers :
             Decode("DateTime.UnmarshalJSON", d, wire.data,
                    DateTimeUnmarshalJSON(d, wire.data), WireSrc)

DoDateTimeUnmarshalText ==
  /\ recv.kind = "DateTime"
  /\ \/ \E data \in DateTimeStrings :
          Decode("DateTime.UnmarshalText", recv.t, data,
                 DateTimeUnmarshalText(recv.t, data), NoSrc)
     \/ /\ OnWire("DateTime", "text")
        /\ \E d \in Receivers :
             Decode("DateTime.UnmarshalText", d, wire.data,
                    DateTimeUnmarshalText(d, wire.data), WireSrc)

DoDateTimeGobDecode ==
  /\ recv.kind = "DateTime"
  /\ \/ \E data \in TimeBinaryInputs :
          Decode("DateTime.GobDecode", recv.t, data,
                 DateTimeGobDecode(recv.t, data), NoSrc)
     \/ /\ OnWire("DateTime", "gob")
        /\ \E d \in Receivers :
             Decode("DateTime.GobDecode", d, wire.data,
                    DateTimeGobDecode(d, wire.data), WireSrc)

DoDateTimeScan ==
  /\ recv.kind = "DateTime"
  /\ \/ \E value \in ScanNumbers :
          Decode("DateTime.Scan", recv.t, value, DateTimeScan(recv.t, value), NoSrc)
     \/ \E value \in ScanSeconds :
          Decode("DateTime.Scan", recv.t, value, DateTimeScan(recv.t, value), NoSrc)
     \/ \E value \in ScanTimes :
          Decode("DateTime.Scan", recv.t, value, DateTimeScan(recv.t, value), NoSrc)
     \/ \E value \in ScanTexts(DateTimeSQLStrings) :
          Decode("DateTime.Scan", recv.t, value, DateTimeScan(recv.t, value), NoSrc)
     \/ /\ OnWire("DateTime", "sql")
        /\ \E value \in ScanTexts({wire.data}), d \in Receivers :
             Decode("DateTime.Scan", d, value, DateTimeScan(d, value), WireSrc)

DateTimeNext ==
  \/ DoNewDateTime \/ DoDateTimeFromNow \/ DoDateTimeFromString
  \/ DoDateTimeFromStringLocation \/ DoDateTimeFromStdTime \/ DoDateTimeFromUnix
  \/ DoDateTimeAdd \/ DoDateTimeAddDate \/ DoDateTimeIn \/ DoDateTimeLocal
  \/ DoDateTimeUTC \/ DoDateTimeCompare \/ DoDateTimeBetween \/ DoToDate \/ DoToTime
  \/ DoDateTimeValue \/ DoDateTimeScan
  \/ DoDateTimeMarshalBinary \/ DoDateTimeMarshalJSON \/ DoDateTimeMarshalText
  \/ DoDateTimeGobEncode \/ DoDateTimeUnmarshalBinary \/ DoDateTimeUnmarshalJSON
  \/ DoDateTimeUnmarshalText \/ DoDateTimeGobDecode

NoCall ==
  [op |-> "none", recv |-> NoRecv, args |-> <<>>, ret |-> ZeroTime, err |-> FALSE,
   src |-> NoSrc, msg |-> ""]

InitOf(kinds) ==
  /\ recv \in {Val(k, ZeroTime) : k \in kinds}
  /\ call = NoCall
  /\ wire = NoWire
  /\ depth = 0

InitDate == InitOf({"Date"})

SpecDate == InitDate /\ [][DateNext]_vars

InitTime == InitOf({"Time"})

SpecTime == InitTime /\ [][TimeNext]_vars

InitDateTime == InitOf({"DateTime"})

SpecDateTime == InitDateTime /\ [][DateTimeNext]_vars

Init == InitOf({"Date", "Time", "DateTime"})

Next == DateNext \/ TimeNext \/ DateTimeNext

Spec == Init /\ [][Next]_vars

\* ------------------------------------------------------------------------
\* Properties
\* ------------------------------------------------------------------------

\* the calendar a Time is pinned to
IsReferenceDate(t) == Year(t) = 0 /\ Month(t) = 1 /\ Day(t) = 1

IsZeroClock(t) == Hour(t) = 0 /\ Minute(t) = 0 /\ Second(t) = 0 /\ Nanosecond(t) = 0

\* a < b as instants, by <<day, second, nanosecond>>
InstantLess(a, b) ==
  \/ a.day < b.day
  \/ a.day = b.day /\ (a.sod < b.sod \/ (a.sod = b.sod /\ a.ns < b.ns))

InstantSame(a, b) == a.day = b.day /\ a.sod = b.sod /\ a.ns = b.ns

\* C1: whatever sequence of constructors, derivations and decodes made it,
\* the instant a Date wraps has the clock 00:00:00.000000000 and the zone UTC.
DateClockIsZeroUTC ==
  recv.kind = "Date" => IsZeroClock(recv.t) /\ Location(recv.t) = UTC

\* Scan has stored a time.Time that had a clock and a zone of its own
DateScannedFromZonedTime ==
  /\ call.op = "Date.Scan"
  /\ ~call.err
  /\ call.args[1].type = "time.Time"
  /\ Hour(call.args[1].v) # 0
  /\ Location(call.args[1].v) # UTC
  /\ recv.t # call.recv.t

\* C2: a Time that a constructor returned without error, or that a decode
\* wrote without error, has the calendar year 0, month 1, day 1.
TimeMadeOnReferenceDate ==
  /\ call.op \in {"NewTime", "TimeFromNow", "TimeFromString", "TimeFromStringLocation",
                  "TimeFromLayout", "TimeFromLayoutLocation", "TimeFromStdTime",
                  "TimeFromUnix", "TimeFromUnixMicro", "TimeFromUnixMilli",
                  "Time.Scan", "Time.UnmarshalBinary", "Time.UnmarshalText",
                  "Time.UnmarshalJSON"}
  /\ ~call.err
  => IsReferenceDate(recv.t)

\* C3: Add, Round, Truncate, In, Local and UTC of a Time on the reference
\* date return a Time on the reference date.
TimeDerivedOnReferenceDate ==
  /\ call.op \in {"Time.Add", "Time.Round", "Time.Truncate", "Time.In", "Time.Local",
                  "Time.UTC"}
  /\ IsReferenceDate(call.recv.t)
  => IsReferenceDate(recv.t)

\* C4: UnmarshalBinary of the bytes MarshalBinary gave for a Date of a year
\* in 0..16383 returns no error and leaves a Date Equal to that Date.
DateBinaryRoundTrip ==
  /\ call.op = "Date.UnmarshalBinary"
  /\ call.src.known
  /\ Year(call.src.t) \in 0..16383
  => ~call.err /\ DateEqual(recv.t, call.src.t)

\* the bytes of the last day of year 16383 were decoded into a zero Date
DateBinaryRoundTripAtYearLimit ==
  /\ call.op = "Date.UnmarshalBinary"
  /\ call.src.known
  /\ Year(call.src.t) = 16383 /\ Month(call.src.t) = 12 /\ Day(call.src.t) = 31
  /\ call.recv.t = ZeroTime
  /\ recv.t = call.src.t

\* C5: d.AddMonthsNoOverflow(n) lies in the month n months from d's month,
\* on d's day or, when that month is shorter, on its last day.
AddMonthsNoOverflowClamps ==
  call.op = "Date.AddMonthsNoOverflow" =>
    LET d     == call.recv.t
        index == Year(d) * 12 + (Month(d) - 1) + call.args[1]
        year  == index \div 12
        month == (index % 12) + 1
        last  == DaysIn(month, year)
    IN  /\ Year(recv.t) = year
        /\ Month(recv.t) = month
        /\ Day(recv.t) = (IF Day(d) < last THEN Day(d) ELSE last)

\* a month was subtracted from the 31st and the result is 29 February
AddMonthsNoOverflowClampedBackwards ==
  /\ call.op = "Date.AddMonthsNoOverflow"
  /\ call.args[1] < 0
  /\ Day(call.recv.t) = 31
  /\ Month(recv.t) = 2 /\ Day(recv.t) = 29

\* C6: of a.Before(b), a.Equal(b) and a.After(b) exactly one is true, for
\* two Dates, two Times and two DateTimes.
OrderingIsTotal ==
  call.op \in {"Date.Compare", "Time.Compare", "DateTime.Compare"} =>
    \/ call.ret.before /\ ~call.ret.equal /\ ~call.ret.after
    \/ ~call.ret.before /\ call.ret.equal /\ ~call.ret.after
    \/ ~call.ret.before /\ ~call.ret.equal /\ call.ret.after

\* two DateTimes of the same instant in different locations were compared
DateTimeComparedAcrossLocations ==
  /\ call.op = "DateTime.Compare"
  /\ InstantSame(recv.t, call.args[1])
  /\ Location(recv.t) # Location(call.args[1])
  /\ call.ret.equal

\* C7: for a Date and for a Time, Between is start < v < end and
\* BetweenOrEqual is start <= v <= end.
RangeChecksFollowOrder ==
  call.op \in {"Date.Between", "Time.Between"} =>
    LET v     == recv.t
        start == call.args[1]
        end   == call.args[2]
    IN  /\ call.ret.between <=> (InstantLess(start, v) /\ InstantLess(v, end))
        /\ call.ret.betweenOrEqual <=> (~InstantLess(v, start) /\ ~InstantLess(end, v))

\* a Time was checked against a range that starts at the Time itself
TimeRangeStartsAtValue ==
  /\ call.op = "Time.Between"
  /\ InstantSame(call.args[1], recv.t)
  /\ InstantLess(recv.t, call.args[2])
  /\ ~call.ret.between
  /\ call.ret.betweenOrEqual

\* C8: for a DateTime, Between is start < v < end and BetweenOrEqual is
\* start <= v <= end.
DateTimeRangeChecksFollowOrder ==
  call.op = "DateTime.Between" =>
    LET v     == recv.t
        start == call.args[1]
        end   == call.args[2]
    IN  /\ call.ret.between <=> (InstantLess(start, v) /\ InstantLess(v, end))
        /\ call.ret.betweenOrEqual <=> (~InstantLess(v, start) /\ ~InstantLess(end, v))

\* a DateTime was checked against a range that ends at the DateTime itself
DateTimeRangeEndsAtValue ==
  /\ call.op = "DateTime.Between"
  /\ InstantLess(call.args[1], recv.t)
  /\ InstantSame(call.args[2], recv.t)
  /\ ~call.ret.between
  /\ call.ret.betweenOrEqual

\* C9: ToDate gives the Date of the DateTime's year, month and day, with the
\* zero clock in UTC; ToTime gives the Time of its hour, minute, second,
\* nanosecond and location, on the reference date.
DateTimeProjections ==
  /\ call.op = "DateTime.ToDate" =>
       /\ recv.kind = "Date"
       /\ Year(recv.t) = Year(call.recv.t)
       /\ Month(recv.t) = Month(call.recv.t)
       /\ Day(recv.t) = Day(call.recv.t)
       /\ IsZeroClock(recv.t)
       /\ Location(recv.t) = UTC
  /\ call.op = "DateTime.ToTime" =>
       /\ recv.kind = "Time"
       /\ Hour(recv.t) = Hour(call.recv.t)
       /\ Minute(recv.t) = Minute(call.recv.t)
       /\ Second(recv.t) = Second(call.recv.t)
       /\ Nanosecond(recv.t) = Nanosecond(call.recv.t)
       /\ Location(recv.t) = Location(call.recv.t)
       /\ IsReferenceDate(recv.t)

\* a DateTime with a date, a clock and a zone of its own was projected to a
\* Time
DateTimeProjectedToTime ==
  /\ call.op = "DateTime.ToTime"
  /\ Year(call.recv.t) = 2024
  /\ Nanosecond(call.recv.t) # 0
  /\ Location(call.recv.t) \notin {UTC, Local}
  /\ recv.t # call.recv.t

\* YYYY-MM-DD
IsFullDate(text) ==
  /\ Len(text) = 10
  /\ \A i \in {1, 2, 3, 4, 6, 7, 9, 10} : IsDigit(text[i])
  /\ text[5] = "-" /\ text[8] = "-"

\* C10: UnmarshalText of what MarshalText gave, and UnmarshalJSON of what
\* MarshalJSON gave, return no error and leave a Date Equal to the Date
\* marshalled; the text is YYYY-MM-DD and the JSON is that text in quotes.
DateTextRoundTrip ==
  /\ (call.op \in {"Date.UnmarshalText", "Date.UnmarshalJSON"} /\ call.src.known)
       => ~call.err /\ DateEqual(recv.t, call.src.t)
  /\ call.op = "Date.MarshalText" => IsFullDate(call.ret)
  /\ call.op = "Date.MarshalJSON" =>
       /\ Len(call.ret) = 12
       /\ call.ret = Quote(SubSeq(call.ret, 2, 11))
       /\ IsFullDate(SubSeq(call.ret, 2, 11))

\* C11: UnmarshalText of what MarshalText gave for a Time on the reference
\* date, and UnmarshalJSON of what MarshalJSON gave, return no error and leave
\* a Time Equal to the Time marshalled.
TimeTextRoundTrip ==
  /\ call.op \in {"Time.UnmarshalText", "Time.UnmarshalJSON"}
  /\ call.src.known
  /\ IsReferenceDate(call.src.t)
  => ~call.err /\ TimeEqual(recv.t, call.src.t)

\* C12: for a DateTime, each of MarshalBinary, MarshalText, MarshalJSON and
\* GobEncode returns no error, and the matching decode of what it gave returns
\* no error and leaves a DateTime Equal to the one marshalled.
DateTimeCodecRoundTrip ==
  /\ call.op \in {"DateTime.MarshalBinary", "DateTime.MarshalText",
                  "DateTime.MarshalJSON", "DateTime.GobEncode"}
       => ~call.err
  /\ (/\ call.op \in {"DateTime.UnmarshalBinary", "DateTime.UnmarshalText",
                      "DateTime.UnmarshalJSON", "DateTime.GobDecode"}
      /\ call.src.known)
       => ~call.err /\ DateTimeEqual(recv.t, call.src.t)

\* C13: Value of a Date is YYYY-MM-DD, and Scan of it, as a string or as
\* bytes, returns no error and leaves a Date Equal to the Date it came from.
DateSQLRoundTrip ==
  /\ call.op = "Date.Value" => ~call.err /\ IsFullDate(call.ret)
  /\ (call.op = "Date.Scan" /\ call.src.known)
       => ~call.err /\ DateEqual(recv.t, call.src.t)

\* HH:MM:SS, an optional point and up to six digits, a sign and two digits
IsSQLClock(text) ==
  /\ Len(text) >= 11
  /\ \A i \in {1, 2, 4, 5, 7, 8} : IsDigit(text[i])
  /\ text[3] = ":" /\ text[6] = ":"
  /\ text[Len(text) - 2] \in {"+", "-"}
  /\ IsDigit(text[Len(text) - 1]) /\ IsDigit(text[Len(text)])
  /\ \/ Len(text) = 11
     \/ /\ Len(text) \in 13..18
        /\ text[9] = "."
        /\ \A i \in 10..(Len(text) - 3) : IsDigit(text[i])

\* C14: Value of a Time on the reference date is HH:MM:SS[.ffffff] and a
\* signed two-digit hour offset, and Scan of it, as a string or as bytes,
\* returns no error and leaves a Time Equal to the Time it came from.
TimeSQLRoundTrip ==
  /\ (call.op = "Time.Value" /\ IsReferenceDate(recv.t))
       => ~call.err /\ IsSQLClock(call.ret)
  /\ (call.op = "Time.Scan" /\ call.src.known /\ IsReferenceDate(call.src.t))
       => ~call.err /\ TimeEqual(recv.t, call.src.t)

\* C15: Value of a DateTime with a year in 0..9999 is YYYY-MM-DD, a space,
\* HH:MM:SS and a signed two-digit hour offset, and Scan of it, as a string or
\* as bytes, returns no error and leaves a DateTime Equal to the DateTime it
\* came from.
DateTimeSQLRoundTrip ==
  /\ (call.op = "DateTime.Value" /\ Year(recv.t) \in 0..9999)
       => /\ ~call.err
          /\ Len(call.ret) = 22
          /\ IsFullDate(SubSeq(call.ret, 1, 10))
          /\ call.ret[11] = " "
          /\ IsSQLClock(SubSeq(call.ret, 12, 22))
  /\ (call.op = "DateTime.Scan" /\ call.src.known /\ Year(call.src.t) \in 0..9999)
       => ~call.err /\ DateTimeEqual(recv.t, call.src.t)

\* C16: Date.UnmarshalBinary returns an error exactly when the input is not
\* four bytes long.
DateBinaryErrorIsLength ==
  call.op = "Date.UnmarshalBinary" => (call.err <=> Len(call.args[1]) # 4)

\* four bytes that no MarshalBinary gives (month 15, day 31) were decoded
DateBinaryDecodedAnyFourBytes ==
  /\ call.op = "Date.UnmarshalBinary"
  /\ call.args[1] = <<255, 255, 255, 255>>
  /\ ~call.err
  /\ recv.t # call.recv.t

\* C17: Scan(nil) on a Date or on a Time returns no error and leaves the
\* zero value, for which IsZero is true.
ScanNilResets ==
  (call.op \in {"Date.Scan", "Time.Scan"} /\ call.args[1].type = "nil")
    => ~call.err /\ recv.t = ZeroTime /\ stdIsZero(recv.t)

\* a Time that held a clock reading was reset by Scan(nil)
TimeResetByScanNil ==
  /\ call.op = "Time.Scan"
  /\ call.args[1].type = "nil"
  /\ ~stdIsZero(call.recv.t)
  /\ stdIsZero(recv.t)

\* C18: Scan of a value of a type outside the accepted kinds (int32, bool)
\* returns, for each of the three types, an error whose message names the
\* type of the value, and leaves the receiver as it was; DateTime.Scan gives
\* that error for nil as well, without resetting the receiver.
ScanWord ==
  [x \in {"Date.Scan", "Time.Scan", "DateTime.Scan"} |->
     CASE x = "Date.Scan" -> "date" [] x = "Time.Scan" -> "time" [] OTHER -> "datetime"]

ScanRejectsOtherKinds ==
  call.op \in DOMAIN ScanWord =>
    /\ \A ty \in {"int32", "bool"} :
         call.args[1].type = ty =>
           /\ call.err
           /\ call.msg = "failed to scan type '" \o ty \o "' into " \o ScanWord[call.op]
           /\ recv.t = call.recv.t
    /\ (call.op = "DateTime.Scan" /\ call.args[1].type = "nil") =>
           /\ call.err
           /\ call.msg = "failed to scan type '<nil>' into datetime"
           /\ recv.t = call.recv.t

\* a DateTime that held a value was given nil and kept its value
DateTimeKeptOnScanNil ==
  /\ call.op = "DateTime.Scan"
  /\ call.args[1].type = "nil"
  /\ call.err
  /\ ~stdIsZero(recv.t)

\* C19: Scan of a time.Time succeeds for each of the three types: a Date gets
\* the year, month and day of the value, a Time its clock reading, and a
\* DateTime is Equal to the value.
ScanTakesStdTime ==
  (call.op \in {"Date.Scan", "Time.Scan", "DateTime.Scan"}
     /\ call.args[1].type = "time.Time") =>
    LET v == call.args[1].v
    IN  /\ ~call.err
        /\ call.op = "Date.Scan" => recv.t = NewDate(Year(v), Month(v), Day(v))
        /\ call.op = "Time.Scan" =>
             /\ Hour(recv.t) = Hour(v) /\ Minute(recv.t) = Minute(v)
             /\ Second(recv.t) = Second(v) /\ Nanosecond(recv.t) = Nanosecond(v)
        /\ call.op = "DateTime.Scan" => stdEqual(recv.t, v)

\* C20: Unix timestamps are read in UTC.  Date.Scan(s) and DateFromUnix(s, 0)
\* give the UTC calendar date of the instant s seconds after 1970-01-01 UTC
\* (946771200 gives 2000-01-02); Time.Scan(s) and TimeFromUnix(s, 0) give the
\* UTC clock reading of that instant, s mod 86400 seconds after midnight; and
\* DateFromUnix(d.Unix(), 0), DateFromUnixMilli(d.UnixMilli()) and
\* DateFromUnixMicro(d.UnixMicro()) are Equal to d for every Date d.
UnixSecondsGiven ==
  \/ call.op \in {"DateFromUnix", "TimeFromUnix"} /\ call.args[2] = 0
  \/ call.op \in {"Date.Scan", "Time.Scan"} /\ call.args[1].type = "int64"

UnixSecondsOfCall ==
  IF call.op \in {"Date.Scan", "Time.Scan"} THEN call.args[1].v ELSE call.args[1]

UnixReadInUTC ==
  /\ (UnixSecondsGiven /\ recv.kind = "Date") =>
       /\ recv.t = [day |-> 719162 + UnixSecondsOfCall.d, sod |-> 0, ns |-> 0, loc |-> UTC]
       /\ UnixSecondsOfCall = Seconds(946771200) => recv.t = NewDate(2000, 1, 2)
  /\ (UnixSecondsGiven /\ recv.kind = "Time") =>
       /\ Hour(recv.t) * 3600 + Minute(recv.t) * 60 + Second(recv.t) = UnixSecondsOfCall.s
       /\ Nanosecond(recv.t) = 0
       /\ Location(recv.t) = UTC
  /\ (call.op \in {"DateFromUnix", "DateFromUnixMilli", "DateFromUnixMicro"}
        /\ call.src.known) => DateEqual(recv.t, call.src.t)

\* C21: NewTime(h, m, s, ns, loc) is a Time whose Location is loc and whose
\* clock reads h:m:s.ns in loc, so that the same clock fields in a zone of
\* another offset give a Time that is not Equal.
NewTimeHonoursZone ==
  call.op = "NewTime" =>
    LET a   == call.args[1]
        loc == call.args[2]
        t   == stdIn(recv.t, loc)
    IN  /\ Location(recv.t) = loc
        /\ Hour(t) = a[1] /\ Minute(t) = a[2] /\ Second(t) = a[3] /\ Nanosecond(t) = a[4]
        /\ \A other \in Locations :
             other.off # loc.off => ~TimeEqual(recv.t, NewTime(a[1], a[2], a[3], a[4], other))

\* C22: for a Date of a year in 0..16383, MarshalBinary returns no error and
\* four bytes which, read as a little-endian unsigned 32-bit integer, are
\* year + month * 2^14 + day * 2^18, with bits 23 to 31 zero.
DateBinaryLayout ==
  (call.op = "Date.MarshalBinary" /\ Year(recv.t) \in 0..16383) =>
    /\ ~call.err
    /\ Len(call.ret) = 4
    /\ call.ret[4] = 0 /\ call.ret[3] < 128
    /\ call.ret[1] + 256 * call.ret[2] + 65536 * call.ret[3]
         = Year(recv.t) + Month(recv.t) * 16384 + Day(recv.t) * 262144

\* the last day of year 16383 was packed into ff 3f 7f 00
DateBinaryLayoutAtYearLimit ==
  /\ call.op = "Date.MarshalBinary"
  /\ recv.t = NewDate(16383, 12, 31)
  /\ call.ret = <<255, 63, 127, 0>>

\* C23: for a Date d of a year above 16383, MarshalBinary returns no error,
\* and UnmarshalBinary of its bytes gives a Date of the year d's year mod
\* 16384, with the month and the day of d.
DateBinaryYearWraps ==
  /\ (call.op = "Date.MarshalBinary" /\ Year(recv.t) > 16383) => ~call.err
  /\ (call.op = "Date.UnmarshalBinary" /\ call.src.known /\ Year(call.src.t) > 16383) =>
       /\ ~call.err
       /\ Year(recv.t) = Year(call.src.t) % 16384
       /\ Month(recv.t) = Month(call.src.t)
       /\ Day(recv.t) = Day(call.src.t)

\* the decode entry points, and what each leaves in a receiver d
DecodeOps ==
  {"Date.Scan", "Date.UnmarshalBinary", "Date.UnmarshalText", "Date.UnmarshalJSON",
   "Time.Scan", "Time.UnmarshalBinary", "Time.UnmarshalText", "Time.UnmarshalJSON",
   "DateTime.Scan", "DateTime.UnmarshalBinary", "DateTime.UnmarshalText",
   "DateTime.UnmarshalJSON"}

DecodedInto(op, d, value) ==
  CASE op = "Date.Scan"                -> DateScan(d, value).v
    [] op = "Date.UnmarshalBinary"     -> DateUnmarshalBinary(d, value).v
    [] op = "Date.UnmarshalText"       -> DateUnmarshalText(d, value).v
    [] op = "Date.UnmarshalJSON"       -> DateUnmarshalJSON(d, value).v
    [] op = "Time.Scan"                -> TimeScan(d, value).v
    [] op = "Time.UnmarshalBinary"     -> TimeUnmarshalBinary(d, value).v
    [] op = "Time.UnmarshalText"       -> TimeUnmarshalText(d, value).v
    [] op = "Time.UnmarshalJSON"       -> TimeUnmarshalJSON(d, value).v
    [] op = "DateTime.Scan"            -> DateTimeScan(d, value).v
    [] op = "DateTime.UnmarshalBinary" -> DateTimeUnmarshalBinary(d, value).v
    [] op = "DateTime.UnmarshalText"   -> DateTimeUnmarshalText(d, value).v
    [] op = "DateTime.UnmarshalJSON"   -> DateTimeUnmarshalJSON(d, value).v

\* C24: after Scan, UnmarshalBinary, UnmarshalText or UnmarshalJSON on a
\* Date, a Time or a DateTime the receiver holds what the input alone
\* determines: the value the same call leaves in a receiver that held the
\* zero value, whatever the receiver held before.
DecodeOverwritesReceiver ==
  call.op \in DecodeOps => recv.t = DecodedInto(call.op, ZeroTime, call.args[1])

\* C28: when Scan, UnmarshalBinary, UnmarshalText or UnmarshalJSON on a Date,
\* a Time or a DateTime returns an error, the receiver holds the value it
\* held before the call.
FailedDecodeKeepsReceiver ==
  (call.op \in DecodeOps /\ call.err) => recv.t = call.recv.t

\* a Date that held a value was handed text that does not parse
DateKeptOnBadText ==
  /\ call.op = "Date.UnmarshalText"
  /\ call.err
  /\ ~stdIsZero(call.recv.t)
  /\ recv.t = call.recv.t

\* C25: d.PreviousMonthLastDay() is the last day of the month before d's
\* month, whatever d's day: 31 December of the year before for a January
\* date, and the day before the first day of d's month.
PreviousMonthLastDayIsLast ==
  call.op = "Date.PreviousMonthLastDay" =>
    LET d     == call.recv.t
        month == IF Month(d) = 1 THEN 12 ELSE Month(d) - 1
        year  == IF Month(d) = 1 THEN Year(d) - 1 ELSE Year(d)
    IN  /\ Year(recv.t) = year
        /\ Month(recv.t) = month
        /\ Day(recv.t) = DaysIn(month, year)
        /\ Month(d) = 1 => Month(recv.t) = 12 /\ Day(recv.t) = 31
        /\ AddDate(recv.t, 0, 0, 1) = NewDate(Year(d), Month(d), 1)

\* from the 31st of March of a leap year the result is the 29th of February
PreviousMonthLastDayOfLeapFebruary ==
  /\ call.op = "Date.PreviousMonthLastDay"
  /\ call.recv.t = NewDate(2024, 3, 31)
  /\ recv.t = NewDate(2024, 2, 29)

\* C26: TimeFromLayoutLocation(L, s, loc) succeeds exactly when s matches the
\* layout L, and then returns what parsing s against L in loc gives; the
\* string 15.04.05 is accepted with the layout 15.04.05.
TimeFromLayoutLocationUsesLayout ==
  call.op = "TimeFromLayoutLocation" =>
    /\ call.err <=> stdParseInLocation(call.args[1], call.args[2], call.args[3]).err
    /\ ~call.err => call.ret = stdParseInLocation(call.args[1], call.args[2], call.args[3]).t
    /\ (call.args[1] = dottedClock /\ call.args[2] = <<"1", "5", ".", "0", "4", ".", "0", "5">>)
         => ~call.err

\* the triple of a Date, and the clock reading of a Time brought to UTC:
\* <<seconds, nanoseconds>> of the wall clock less the offset of the zone
DateTripleLess(a, b) ==
  \/ Year(a) < Year(b)
  \/ Year(a) = Year(b) /\ Month(a) < Month(b)
  \/ Year(a) = Year(b) /\ Month(a) = Month(b) /\ Day(a) < Day(b)

ClockSeconds(t) == Hour(t) * 3600 + Minute(t) * 60 + Second(t) - Location(t).off

ClockLess(a, b) ==
  \/ ClockSeconds(a) < ClockSeconds(b)
  \/ ClockSeconds(a) = ClockSeconds(b) /\ Nanosecond(a) < Nanosecond(b)

\* C27: a.After(b) is true exactly when a's (year, month, day) is greater
\* than b's, a.Before(b) when it is smaller, a.Equal(b) when the two are the
\* same, a.AfterOrEqual(b) is not a.Before(b) and a.BeforeOrEqual(b) is not
\* a.After(b); for Times that the constructors made the same holds of the
\* zone-adjusted clock reading alone, never of a calendar date.  (A Time
\* that no derivation or decode has touched and that is not the zero value
\* is one a constructor returned.)
ComparisonBasis ==
  /\ call.op = "Date.Compare" =>
       LET a == call.recv.t
           b == call.args[1]
       IN  /\ call.ret.after = DateTripleLess(b, a)
           /\ call.ret.before = DateTripleLess(a, b)
           /\ call.ret.equal = (~DateTripleLess(a, b) /\ ~DateTripleLess(b, a))
           /\ call.ret.afterOrEqual = ~call.ret.before
           /\ call.ret.beforeOrEqual = ~call.ret.after
  /\ (call.op = "Time.Compare" /\ depth = 0 /\ ~stdIsZero(call.recv.t)) =>
       LET a == call.recv.t
           b == call.args[1]
       IN  /\ call.ret.after = ClockLess(b, a)
           /\ call.ret.before = ClockLess(a, b)
           /\ call.ret.equal = (~ClockLess(a, b) /\ ~ClockLess(b, a))
           /\ call.ret.afterOrEqual = ~call.ret.before
           /\ call.ret.beforeOrEqual = ~call.ret.after

\* the year, month and day fields of four bytes: bits 0-13, 14-17 and 18-22
\* of the little-endian word
YearField(b)  == (b[1] + 256 * b[2]) % 16384
MonthField(b) == ((b[1] + 256 * b[2] + 65536 * b[3]) \div 16384) % 16
DayField(b)   == ((b[1] + 256 * b[2] + 65536 * b[3]) \div 262144) % 32

\* C29: Date.UnmarshalBinary does not validate the fields it decodes.  For
\* four bytes it returns no error, ignores bits 23 to 31, and leaves
\* NewDate(year field, month field, day field) with the calendar rollover of
\* NewDate: a month field of 0 or 13..15, or a day field of 0 or past the end
\* of the month, gives another date (all-zero bytes give 30 November of the
\* year -1), and MarshalBinary of that date is not the input.
DateBinaryDecodeUnvalidated ==
  (call.op = "Date.UnmarshalBinary" /\ Len(call.args[1]) = 4) =>
    LET b == call.args[1]
        y == YearField(b)
        m == MonthField(b)
        d == DayField(b)
    IN  /\ ~call.err
        /\ recv.t = NewDate(y, m, d)
        /\ recv.t = DateUnmarshalBinary(ZeroTime, <<b[1], b[2], b[3] % 128, 0>>).v
        /\ (m \notin 1..12 \/ d = 0 \/ d > DaysIn(m, y)) =>
             /\ <<Year(recv.t), Month(recv.t), Day(recv.t)>> # <<y, m, d>>
             /\ DateMarshalBinary(recv.t) # b
        /\ b = <<0, 0, 0, 0>> =>
             Year(recv.t) = -1 /\ Month(recv.t) = 11 /\ Day(recv.t) = 30

\* four zero bytes were decoded into 30 November of the year -1
DateDecodedFromZeroBytes ==
  /\ call.op = "Date.UnmarshalBinary"
  /\ call.args[1] = <<0, 0, 0, 0>>
  /\ ~call.err
  /\ recv.t = NewDate(-1, 11, 30)

\* the Times NewTime returns
NewTimes == {NewTime(a[1], a[2], a[3], a[4], UTC) : a \in TimeInputs}

\* C30: for a Time t built by NewTime and a duration dur of either sign,
\* t.Add(dur) has the clock reading (t's time of day + dur) mod 24 hours on
\* the reference date, so that t.Add(dur).Sub(t) is dur only when the sum
\* stays within the day; 23:00 plus two hours is 01:00, which is Before t.
TimeAddWrapsAroundMidnight ==
  (call.op = "Time.Add" /\ call.recv.t \in NewTimes) =>
    LET t   == call.recv.t
        dur == call.args[1]
        n   == Nanosecond(t) + dur.ns
        sec == Hour(t) * 3600 + Minute(t) * 60 + Second(t) + dur.s + n \div 1000000000
    IN  /\ IsReferenceDate(recv.t)
        /\ Hour(recv.t) * 3600 + Minute(recv.t) * 60 + Second(recv.t) = sec % SecondsPerDay
        /\ Nanosecond(recv.t) = n % 1000000000
        /\ (TimeSub(recv.t, t) = dur) <=> (sec \in 0..(SecondsPerDay - 1))
        /\ (Hour(t) = 23 /\ Minute(t) = 0 /\ Second(t) = 0 /\ Nanosecond(t) = 0
              /\ dur = Dur(7200, 0))
             => /\ Hour(recv.t) = 1 /\ Minute(recv.t) = 0 /\ Second(recv.t) = 0
                /\ TimeBefore(recv.t, t)

\* two hours were added to 23:00 and the result is 01:00
TimeAddedPastMidnight ==
  /\ call.op = "Time.Add"
  /\ call.recv.t = NewTime(23, 0, 0, 0, UTC)
  /\ call.args[1] = Dur(7200, 0)
  /\ recv.t = NewTime(1, 0, 0, 0, UTC)

====
